---- MODULE Spec2Model ----
(***************************************************************************)
(* Control plane of radiod (ka9q-radio): the command/status thread         *)
(* radio_status(), the command decoder decode_radio_commands_with_source() *)
(* and the status encoder encode_radio_status_ex() of src/radio_status.c,  *)
(* together with the channel registry and the per-channel worker they      *)
(* cooperate with.                                                         *)
(*                                                                         *)
(* Frequencies, filter edges and sample rates are integers in Hz.  A       *)
(* command datagram body is the sequence of its TLVs, each <<tag, value>>. *)
(***************************************************************************)
EXTENDS Integers, Sequences, FiniteSets, TLC

(***************************************************************************)
(* Bounds of the model                                                     *)
(***************************************************************************)
Nchannels == 3            \* size of Channel_list
MaxCmds == 3              \* datagrams the control socket delivers in one run
MaxTags == 3              \* TLVs in one generated command packet
MaxCut == 2               \* TLVs in a generated packet that arrives cut short
MaxBlocks == 3            \* blocks a worker runs after a poll of all channels
MaxSeq == 3               \* commands in a sequence sent to one channel
MaxSeqTags == 1           \* TLVs in one packet of such a sequence
MaxReceivers == 2         \* receivers the CWSL WebSDR server has
MaxDevices == 2           \* USB devices on the bus when rx888_test runs
Channel_idle_timeout == 2 \* idle lifetime of a channel, in blocks

(***************************************************************************)
(* Program constants                                                       *)
(***************************************************************************)
BROADCAST == 0 - 1        \* ssrc 0xffffffff, all 32 bits set, read as two's complement
NAN == 1000000000         \* stands for a float that is not finite
NULL == <<>>              \* an empty command slot
NoChan == 0 - 1           \* lookup_chan / create_chan returned NULL

LINEAR_DEMOD == 0
FM_DEMOD == 1
WFM_DEMOD == 2
SPECT_DEMOD == 3
N_DEMOD == 4

NO_ENCODING == 0
S16LE == 1
S16BE == 2
OPUS == 3
UNUSED_ENCODING == 7

BlockRate == 50           \* frontend samprate / input block size, Hz

Slots == 0 .. (Nchannels - 1)

isfinite(x) == x # NAN

max(a, b) == IF a > b THEN a ELSE b

min(a, b) == IF a < b THEN a ELSE b

fabs(x) == IF x = NAN THEN NAN ELSE IF x < 0 THEN 0 - x ELSE x

(***************************************************************************)
(* Collaborators of radio_status.c that live in other files of radiod      *)
(***************************************************************************)
\* Power ratios are kept as integers: 0 is the ratio 0.0, and a positive
\* ratio is its dB value counted up from the smallest a float can hold.
MinPowerdB == 0 - 450

MinusInf == 0 - 1000000000

\* dB to power ratio: monotone, and 0.0 when the ratio underflows.
dB2power(x) == IF x < MinPowerdB THEN 0 ELSE x - MinPowerdB + 1

power2dB(p) == IF p = 0 THEN MinusInf ELSE p + MinPowerdB - 1

\* Force a sample rate to a multiple of the block rate (nearest).
round_samprate(x) == ((x + (BlockRate \div 2)) \div BlockRate) * BlockRate

\* RTP payload type: a function of rate, channel count and encoding only.
pt_from_info(samprate, channels, encoding) == <<samprate, channels, encoding>>

\* The preset table: named bundles of channel parameters, read-only.
Preset_table ==
  [ft8 |-> [demod_type |-> LINEAR_DEMOD, samprate |-> 12000, min_IF |-> 0 - 3000,
            max_IF |-> 3000, kaiser_beta |-> 11, shift |-> 0],
   fm  |-> [demod_type |-> FM_DEMOD, samprate |-> 24000, min_IF |-> 0 - 8000,
            max_IF |-> 8000, kaiser_beta |-> 11, shift |-> 0]]

\* loadpreset: result code and channel; a preset that cannot be loaded
\* returns nonzero and leaves the channel alone.
loadpreset(chan, name) ==
  IF name \in DOMAIN Preset_table
    THEN [rc |-> 0,
          chan |-> [chan EXCEPT !.demod_type = Preset_table[name].demod_type,
                                !.samprate = Preset_table[name].samprate,
                                !.min_IF = Preset_table[name].min_IF,
                                !.max_IF = Preset_table[name].max_IF,
                                !.kaiser_beta = Preset_table[name].kaiser_beta,
                                !.shift = Preset_table[name].shift]]
    ELSE [rc |-> 0 - 1, chan |-> chan]

\* set_freq: tune the channel.
set_freq(chan, f) == [chan EXCEPT !.freq = f]

\* The channel every dynamically created channel is copied from.
Template ==
  [inuse |-> FALSE, ssrc |-> 0, lifetime |-> 0, freq |-> 0, shift |-> 0,
   min_IF |-> 0 - 5000, max_IF |-> 5000, kaiser_beta |-> 11,
   samprate |-> 12000, channels |-> 1, encoding |-> S16BE,
   rtp_type |-> <<0, 0, 0>>, demod_type |-> LINEAR_DEMOD, preset |-> "",
   stereo_enable |-> FALSE, tag |-> 0, command |-> NULL, length |-> 0,
   global_timer |-> 0, bin_count |-> 64, bin_bw |-> 1000, bin_data |-> 0,
   squelch_open |-> dB2power(8), squelch_close |-> dB2power(7),
   fm_snr |-> 0, squelch_state |-> "CLOSED", remainder |-> 0]

(***************************************************************************)
(* Byte layout of a command body.  A TLV is one type byte, one length byte *)
(* and optlen value bytes; EOL is a lone type byte.  Every value of the    *)
(* model is shorter than 128 bytes, so the length always fits in one byte. *)
(***************************************************************************)
EOL == <<"EOL", 0>>

\* Bytes of an integer or float value: leading zero bytes are not sent.
IntLen(v) ==
  IF v = 0 THEN 0
  ELSE IF v < 0 THEN 4
  ELSE IF v < 256 THEN 1
  ELSE IF v < 65536 THEN 2
  ELSE IF v < 16777216 THEN 3
  ELSE 4

\* The length byte of a TLV.
optlen(tlv) == IF tlv[1] = "PRESET" THEN Len(tlv[2]) ELSE IntLen(tlv[2])

\* Bytes a sequence of TLVs occupies.
RECURSIVE Size(_)
Size(buffer) ==
  IF buffer = <<>> THEN 0
  ELSE IF Head(buffer)[1] = "EOL" THEN 1 + Size(Tail(buffer))
  ELSE 2 + optlen(Head(buffer)) + Size(Tail(buffer))

(***************************************************************************)
(* decode_radio_commands_with_source                                       *)
(*                                                                         *)
(* The decoder's locals travel in a record: the channel being changed, the *)
(* restart_needed / new_filter_needed flags, the saved overrides, and what *)
(* the calls it makes have done (flush_output, set_channel_filter).        *)
(***************************************************************************)
DecodeStart_refresh_idle(chan) ==
  [chan |-> [chan EXCEPT !.lifetime =
               IF chan.lifetime # 0 THEN Channel_idle_timeout ELSE chan.lifetime],
   restart_needed |-> FALSE, new_filter_needed |-> FALSE,
   override_low_edge |-> NAN, override_high_edge |-> NAN,
   override_bin_count |-> 0 - 1, override_bin_bw |-> NAN,
   has_overrides |-> FALSE, spectrum_params_changed |-> FALSE,
   flushes |-> 0, filter_sets |-> 0, packets_in |-> 1, scanned |-> 0,
   read_end |-> 0]

\* The lifetime rule and the decoder's locals before the scan.
DecodeStart(chan) ==
  [chan |-> [chan EXCEPT !.lifetime =
               IF chan.lifetime # 0 /\ chan.freq # 0
                 THEN Channel_idle_timeout ELSE chan.lifetime],
   restart_needed |-> FALSE, new_filter_needed |-> FALSE,
   override_low_edge |-> NAN, override_high_edge |-> NAN,
   override_bin_count |-> 0 - 1, override_bin_bw |-> NAN,
   has_overrides |-> FALSE, spectrum_params_changed |-> FALSE,
   flushes |-> 0, filter_sets |-> 0, packets_in |-> 1, scanned |-> 0,
   read_end |-> 0]

\* The sample rates Opus can handle.
OpusRates == {48000, 24000, 16000, 12000, 8000}

OpusRate(r) == r \in OpusRates

Tag_COMMAND_TAG(st, v) == [st EXCEPT !.chan.tag = v]

Tag_OUTPUT_SAMPRATE(st, v) ==
  LET new_sample_rate == round_samprate(v) IN
  IF new_sample_rate # st.chan.samprate
     /\ (st.chan.encoding # OPUS \/ OpusRate(new_sample_rate))
    THEN [st EXCEPT !.flushes = @ + 1,
                    !.chan.samprate = new_sample_rate,
                    !.chan.rtp_type = pt_from_info(new_sample_rate, st.chan.channels,
                                                   st.chan.encoding),
                    !.restart_needed = TRUE]
    ELSE st

Tag_RADIO_FREQUENCY(st, v) ==
  LET f == fabs(v) IN
  IF isfinite(f) THEN [st EXCEPT !.chan = set_freq(st.chan, f)] ELSE st

Tag_LOW_EDGE_deferred(st, f) ==
  IF isfinite(f)
    THEN [st EXCEPT !.override_low_edge = f, !.has_overrides = TRUE]
    ELSE st

Tag_LOW_EDGE(st, f) ==
  IF isfinite(f)
    THEN LET s1 == [st EXCEPT !.override_low_edge = f, !.has_overrides = TRUE] IN
         IF st.chan.demod_type # SPECT_DEMOD
           THEN [s1 EXCEPT !.chan.min_IF = max(f, 0 - (st.chan.samprate \div 2)),
                           !.new_filter_needed = TRUE]
           ELSE s1
    ELSE st

Tag_HIGH_EDGE(st, f) ==
  IF isfinite(f)
    THEN LET s1 == [st EXCEPT !.override_high_edge = f, !.has_overrides = TRUE] IN
         IF st.chan.demod_type # SPECT_DEMOD
           THEN [s1 EXCEPT !.chan.max_IF = min(f, st.chan.samprate \div 2),
                           !.new_filter_needed = TRUE]
           ELSE s1
    ELSE st

Tag_KAISER_BETA(st, v) ==
  LET f == fabs(v) IN
  IF isfinite(f) /\ st.chan.kaiser_beta # f
    THEN [st EXCEPT !.chan.kaiser_beta = f, !.new_filter_needed = TRUE]
    ELSE st

Tag_PRESET(st, p) ==
  LET named == [st EXCEPT !.chan.preset = p, !.flushes = @ + 1]
      old == named.chan
      lp == loadpreset(old, p)
      shifted == IF old.shift # lp.chan.shift
                   THEN set_freq(lp.chan, lp.chan.freq + lp.chan.shift - old.shift)
                   ELSE lp.chan
  IN
  IF lp.rc # 0
    THEN named
    ELSE [named EXCEPT
            !.chan = shifted,
            !.new_filter_needed =
               @ \/ lp.chan.min_IF # old.min_IF \/ lp.chan.max_IF # old.max_IF
                 \/ lp.chan.kaiser_beta # old.kaiser_beta,
            !.restart_needed =
               @ \/ lp.chan.demod_type # old.demod_type
                 \/ lp.chan.samprate # old.samprate]

Tag_DEMOD_TYPE_no_restart(st, i) ==
  IF i >= 0 /\ i < N_DEMOD /\ i # st.chan.demod_type
    THEN [st EXCEPT !.chan.demod_type = i]
    ELSE st

Tag_DEMOD_TYPE(st, i) ==
  IF i >= 0 /\ i < N_DEMOD /\ i # st.chan.demod_type
    THEN [st EXCEPT !.chan.demod_type = i, !.restart_needed = TRUE]
    ELSE st

Tag_OUTPUT_CHANNELS(st, i) ==
  IF i # 1 /\ i # 2
    THEN st
    ELSE IF st.chan.demod_type = WFM_DEMOD
      THEN [st EXCEPT !.chan.stereo_enable = (i = 2)]
      ELSE IF i # st.chan.channels
        THEN [st EXCEPT !.flushes = @ + 1,
                        !.chan.channels = i,
                        !.chan.rtp_type = pt_from_info(st.chan.samprate, i,
                                                       st.chan.encoding)]
        ELSE st

Tag_SQUELCH_OPEN_no_sentinel(st, x) ==
  IF isfinite(x) /\ x > 0 - 999
    THEN [st EXCEPT !.chan.squelch_open = fabs(dB2power(x))]
    ELSE st

\* -999 or less means "always open": 0.0 is the marker.
Tag_SQUELCH_OPEN(st, x) ==
  IF isfinite(x)
    THEN [st EXCEPT !.chan.squelch_open =
                      IF x <= 0 - 999 THEN 0 ELSE fabs(dB2power(x))]
    ELSE st

Tag_SQUELCH_CLOSE(st, x) ==
  IF isfinite(x)
    THEN [st EXCEPT !.chan.squelch_close =
                      IF x <= 0 - 999 THEN 0 ELSE fabs(dB2power(x))]
    ELSE st

Tag_NONCOHERENT_BIN_BW(st, x) ==
  IF isfinite(x)
    THEN [st EXCEPT !.override_bin_bw = x, !.has_overrides = TRUE]
    ELSE st

Tag_BIN_COUNT_immediate(st, x) ==
  IF x > 0
    THEN [st EXCEPT !.chan.bin_count = x, !.spectrum_params_changed = TRUE]
    ELSE st

Tag_BIN_COUNT(st, x) ==
  IF x > 0
    THEN [st EXCEPT !.override_bin_count = x, !.has_overrides = TRUE]
    ELSE st

Tag_OUTPUT_ENCODING_keep_rate(st, encoding) ==
  IF encoding # st.chan.encoding /\ encoding >= NO_ENCODING
     /\ encoding < UNUSED_ENCODING
    THEN [st EXCEPT !.flushes = @ + 1,
                    !.chan.encoding = encoding,
                    !.chan.rtp_type = pt_from_info(st.chan.samprate,
                                                   st.chan.channels, encoding)]
    ELSE st

Tag_OUTPUT_ENCODING(st, encoding) ==
  IF encoding # st.chan.encoding /\ encoding >= NO_ENCODING
     /\ encoding < UNUSED_ENCODING
    THEN LET coerce == encoding = OPUS /\ ~OpusRate(st.chan.samprate)
             rate == IF coerce THEN 48000 ELSE st.chan.samprate
         IN [st EXCEPT !.flushes = @ + 1,
                       !.chan.encoding = encoding,
                       !.chan.samprate = rate,
                       !.restart_needed = @ \/ coerce,
                       !.chan.rtp_type = pt_from_info(rate, st.chan.channels, encoding)]
    ELSE st

\* The switch(type) of the scan loop; unknown tags are silently ignored.
DecodeTag(st, tlv) ==
  LET type == tlv[1]
      v == tlv[2]
  IN CASE type = "COMMAND_TAG" -> Tag_COMMAND_TAG(st, v)
       [] type = "OUTPUT_SAMPRATE" -> Tag_OUTPUT_SAMPRATE(st, v)
       [] type = "RADIO_FREQUENCY" -> Tag_RADIO_FREQUENCY(st, v)
       [] type = "LOW_EDGE" -> Tag_LOW_EDGE(st, v)
       [] type = "HIGH_EDGE" -> Tag_HIGH_EDGE(st, v)
       [] type = "KAISER_BETA" -> Tag_KAISER_BETA(st, v)
       [] type = "PRESET" -> Tag_PRESET(st, v)
       [] type = "DEMOD_TYPE" -> Tag_DEMOD_TYPE(st, v)
       [] type = "OUTPUT_CHANNELS" -> Tag_OUTPUT_CHANNELS(st, v)
       [] type = "SQUELCH_OPEN" -> Tag_SQUELCH_OPEN(st, v)
       [] type = "SQUELCH_CLOSE" -> Tag_SQUELCH_CLOSE(st, v)
       [] type = "NONCOHERENT_BIN_BW" -> Tag_NONCOHERENT_BIN_BW(st, v)
       [] type = "BIN_COUNT" -> Tag_BIN_COUNT(st, v)
       [] type = "OUTPUT_ENCODING" -> Tag_OUTPUT_ENCODING(st, v)
       [] OTHER -> st

RECURSIVE DecodeScan_stop_at_unknown(_, _, _, _)
DecodeScan_stop_at_unknown(st, buffer, cp, length) ==
  IF cp >= length \/ buffer = <<>>
    THEN st
    ELSE IF Head(buffer)[1] = "EOL"
      THEN [st EXCEPT !.read_end = cp + 1]
      ELSE IF cp + 2 + optlen(Head(buffer)) >= length
                \/ Head(buffer)[1] = "DESCRIPTION"
        THEN [st EXCEPT !.read_end = cp + 2]
        ELSE DecodeScan_stop_at_unknown(
               [DecodeTag(st, Head(buffer)) EXCEPT
                  !.scanned = @ + 1,
                  !.read_end = cp + 2 + optlen(Head(buffer))],
               Tail(buffer), cp + 2 + optlen(Head(buffer)), length)

\* while(cp < buffer + length): apply the TLVs in packet order; stop at EOL
\* and at a TLV whose value does not end before buffer + length.  buffer is
\* what is left to scan, cp the offset of its first byte.  read_end is the
\* offset after the last byte the scan has read: the type byte, then for a
\* type other than EOL the length byte, then the value of an applied TLV.
RECURSIVE DecodeScan(_, _, _, _)
DecodeScan(st, buffer, cp, length) ==
  IF cp >= length \/ buffer = <<>>
    THEN st
    ELSE IF Head(buffer)[1] = "EOL"
      THEN [st EXCEPT !.read_end = cp + 1]
      ELSE IF cp + 2 + optlen(Head(buffer)) >= length
        THEN [st EXCEPT !.read_end = cp + 2]
        ELSE DecodeScan([DecodeTag(st, Head(buffer)) EXCEPT
                           !.scanned = @ + 1,
                           !.read_end = cp + 2 + optlen(Head(buffer))],
                        Tail(buffer), cp + 2 + optlen(Head(buffer)), length)

\* done: the overrides saved during the scan, applied to a spectrum channel.
ApplyOverrides(st) ==
  IF st.has_overrides /\ st.chan.demod_type = SPECT_DEMOD
    THEN LET cnt == st.override_bin_count > 0
                    /\ st.override_bin_count # st.chan.bin_count
             bw == isfinite(st.override_bin_bw)
                   /\ st.override_bin_bw # st.chan.bin_bw
         IN [st EXCEPT
               !.chan.bin_count = IF cnt THEN st.override_bin_count ELSE @,
               !.chan.bin_bw = IF bw THEN st.override_bin_bw ELSE @,
               !.spectrum_params_changed = cnt \/ bw]
    ELSE st

DecodeFinish_keep_remainder(st) ==
  LET s1 == IF st.chan.demod_type = SPECT_DEMOD
              THEN [st EXCEPT !.chan.preset = ""] ELSE st
  IN
  IF s1.chan.demod_type = SPECT_DEMOD /\ s1.spectrum_params_changed
    THEN [s1 EXCEPT !.ret = TRUE]
    ELSE IF s1.restart_needed
      THEN [s1 EXCEPT !.ret = TRUE]
      ELSE IF s1.new_filter_needed
        THEN [s1 EXCEPT !.ret = FALSE,
                        !.filter_sets = @ + 1,
                        !.chan = set_freq(s1.chan, s1.chan.freq)]
        ELSE [s1 EXCEPT !.ret = FALSE]

\* The tail of the decoder: its return value, and the filter rebuild with
\* the retune and remainder = NAN that go with it.
DecodeFinish(st) ==
  LET s1 == IF st.chan.demod_type = SPECT_DEMOD
              THEN [st EXCEPT !.chan.preset = ""] ELSE st
  IN
  IF s1.chan.demod_type = SPECT_DEMOD /\ s1.spectrum_params_changed
    THEN [s1 EXCEPT !.ret = TRUE]
    ELSE IF s1.restart_needed
      THEN [s1 EXCEPT !.ret = TRUE]
      ELSE IF s1.new_filter_needed
        THEN [s1 EXCEPT !.ret = FALSE,
                        !.filter_sets = @ + 1,
                        !.chan = [set_freq(s1.chan, s1.chan.freq)
                                    EXCEPT !.remainder = NAN]]
        ELSE [s1 EXCEPT !.ret = FALSE]

decode_lifetime_after_tags(chan, buffer, length) ==
  LET start == [DecodeStart(chan) EXCEPT !.chan = chan]
      scanned == DecodeScan(start, buffer, 0, length)
      st == ApplyOverrides([scanned EXCEPT !.chan = DecodeStart(scanned.chan).chan])
  IN DecodeFinish([ret |-> FALSE] @@ st)

decode_radio_commands_with_source(chan, buffer, length) ==
  LET scanned == DecodeScan(DecodeStart(chan), buffer, 0, length)
      st == ApplyOverrides(scanned)
  IN DecodeFinish([ret |-> FALSE] @@ st)

\* The public wrapper.
decode_radio_commands(chan, buffer, length) ==
  decode_radio_commands_with_source(chan, buffer, length)

(***************************************************************************)
(* encode_radio_status_ex / send_radio_status_ex                           *)
(*                                                                         *)
(* A STATUS packet is the record of the fields it carries.  A field the    *)
(* encoder leaves out of the packet is Absent, one it writes Present.      *)
(* BIN_DATA is encoded as                                                  *)
(* bin_count entries read from the buffer bin_data, whose allocated size   *)
(* is kept next to it (vector_buf); spectrum_poll is noted in polled.      *)
(***************************************************************************)
Absent == <<>>

Present(v) == <<v>>

encode_radio_status_ex(chan, skip_spectrum_poll) ==
  LET spect == chan.demod_type = SPECT_DEMOD
      vec == spect /\ chan.bin_data # 0
      fm == chan.demod_type \in {FM_DEMOD, WFM_DEMOD}
      squelched == fm \/ chan.demod_type = LINEAR_DEMOD
  IN [type |-> "STATUS",
      ssrc |-> chan.ssrc,
      tag |-> chan.tag,
      freq |-> chan.freq,
      demod_type |-> chan.demod_type,
      preset |-> IF Len(chan.preset) > 0 THEN Present(chan.preset) ELSE Absent,
      squelch_open |-> IF squelched THEN Present(power2dB(chan.squelch_open))
                       ELSE Absent,
      squelch_close |-> IF squelched THEN Present(power2dB(chan.squelch_close))
                        ELSE Absent,
      fm_snr |-> IF fm THEN Present(power2dB(chan.fm_snr)) ELSE Absent,
      bin_bw |-> IF spect THEN Present(chan.bin_bw) ELSE Absent,
      bin_count |-> IF spect THEN Present(chan.bin_count) ELSE Absent,
      polled |-> spect /\ ~skip_spectrum_poll /\ chan.bin_data # 0,
      vector_len |-> IF vec THEN Present(chan.bin_count) ELSE Absent,
      vector_buf |-> IF vec THEN Present(chan.bin_data) ELSE Absent,
      min_IF |-> chan.min_IF,
      max_IF |-> chan.max_IF,
      samprate |-> IF spect THEN Absent ELSE Present(chan.samprate),
      kaiser_beta |-> IF spect THEN Absent ELSE Present(chan.kaiser_beta),
      channels |-> IF spect THEN Absent ELSE Present(chan.channels),
      rtp_type |-> IF spect THEN Absent ELSE Present(chan.rtp_type),
      encoding |-> IF spect THEN Absent ELSE Present(chan.encoding)]

send_radio_status_ex(chan, skip_spectrum_poll) ==
  encode_radio_status_ex(chan, skip_spectrum_poll)

send_radio_status(chan) == send_radio_status_ex(chan, FALSE)

(***************************************************************************)
(* Channel registry                                                        *)
(***************************************************************************)
FirstSlot(S) == CHOOSE i \in S : \A j \in S : i <= j

lookup_chan(list, ssrc) ==
  LET found == {i \in Slots : list[i].inuse /\ list[i].ssrc = ssrc}
  IN IF found = {} THEN NoChan ELSE FirstSlot(found)

\* NoChan when no default data socket is configured or the table is full.
create_chan(list, data_fd, ssrc) ==
  LET free == {i \in Slots : ~list[i].inuse}
  IN IF ssrc = BROADCAST \/ ~data_fd \/ free = {} THEN NoChan ELSE FirstSlot(free)

NewChannel(ssrc) ==
  [Template EXCEPT !.ssrc = ssrc, !.inuse = TRUE, !.lifetime = Channel_idle_timeout]

\* get_ssrc: scan the TLVs for OUTPUT_SSRC; 0 when there is none.
RECURSIVE ScanSsrc(_, _, _)
ScanSsrc(buffer, cp, length) ==
  IF cp >= length \/ buffer = <<>> \/ Head(buffer)[1] = "EOL"
    THEN 0
    ELSE IF cp + 2 + optlen(Head(buffer)) >= length
      THEN 0
      ELSE IF Head(buffer)[1] = "OUTPUT_SSRC"
        THEN Head(buffer)[2]
        ELSE ScanSsrc(Tail(buffer), cp + 2 + optlen(Head(buffer)), length)

get_ssrc(buffer, length) == ScanSsrc(buffer, 0, length)

(***************************************************************************)
(* State                                                                   *)
(***************************************************************************)
VARIABLES
  Channel_list,   \* the channel table
  worker,         \* per slot: does the channel's demod thread exist
  Data_fd,        \* is a default data socket configured ('data =' in [global])
  ctl,            \* the radio_status thread: position and locals
  status_out,     \* per slot: the last STATUS sent for the channel held there
  ncmds,          \* datagrams received so far
  dec,            \* a single decode of one packet: position, packet, result
  poll,           \* per slot, since the last poll of all channels reached it:
                  \* blocks run, statuses sent, block of the last status
  mutex,          \* per slot: who holds the channel's status.lock
  wpc,            \* per slot: where the channel's worker is in its block
  heap,           \* per command buffer ever allocated: its fate
  cmd,            \* the command thread's local pointer cmd (0 is NULL)
  ptr,            \* per slot: the buffer status.command points to (0 is NULL)
  config,         \* the [cwsl_websdr] section of the configuration file
  frontend,       \* struct frontend of the CWSL WebSDR driver
  cwsl,           \* struct cwsl_websdr
  server,         \* the CWSL WebSDR server the driver talks to
  Stop_transfers, \* the process-wide flag set on SIGINT
  cw,             \* the driver's callers and threads: positions, results
  rx              \* the rx888_test program: position, USB bus, counts, exit

\* The variables that follow locks and heap buffers step by step.
sync == <<mutex, wpc, heap, cmd, ptr>>

\* radiod's control plane.
radiod == <<Channel_list, worker, Data_fd, ctl, status_out, ncmds, dec, poll,
            mutex, wpc, heap, cmd, ptr>>

\* The CWSL WebSDR front end driver.
websdr == <<config, frontend, cwsl, server, Stop_transfers, cw>>

vars == <<Channel_list, worker, Data_fd, ctl, status_out, ncmds, dec, poll,
          mutex, wpc, heap, cmd, ptr,
          config, frontend, cwsl, server, Stop_transfers, cw, rx>>

NoPacket ==
  [type |-> "none", ssrc |-> 0, tag |-> 0, freq |-> 0, demod_type |-> 0,
   preset |-> Absent, squelch_open |-> Absent, squelch_close |-> Absent,
   fm_snr |-> Absent, bin_bw |-> Absent, bin_count |-> Absent, polled |-> FALSE,
   vector_len |-> Absent, vector_buf |-> Absent, min_IF |-> 0, max_IF |-> 0,
   samprate |-> Absent, kaiser_beta |-> Absent, channels |-> Absent,
   rtp_type |-> Absent, encoding |-> Absent]

NoStatus == [from |-> "none", pkt |-> NoPacket]

CtlIdle ==
  [pc |-> "recv", type |-> "none", buffer |-> <<>>, length |-> 0, ssrc |-> 0,
   chan |-> NoChan, i |-> 0,
   oops |-> FALSE, logged |-> FALSE, sent |-> 0]

NoPoll == [i \in Slots |-> [blocks |-> 0, emitted |-> 0, tick |-> 0]]

\* A buffer that malloc has not returned yet.
NoBuffer == [live |-> FALSE, frees |-> 0, by |-> "none", read_after_free |-> FALSE]

Buffers == 1 .. MaxCmds

\* No lock held, every worker waiting for its next block, nothing allocated.
SyncOff ==
  /\ mutex = [i \in Slots |-> "free"]
  /\ wpc = [i \in Slots |-> "fft"]
  /\ heap = [b \in Buffers |-> NoBuffer]
  /\ cmd = 0
  /\ ptr = [i \in Slots |-> 0]

\* No front end driver configured.
WebsdrOff ==
  /\ config = <<>>
  /\ frontend = <<>>
  /\ cwsl = <<>>
  /\ server = <<>>
  /\ Stop_transfers = FALSE
  /\ cw = <<>>

\* rx888_test is not running.
RxOff == <<>>

DecOff == [pc |-> "off", pkt |-> <<>>, length |-> 0, pre |-> Template,
           once |-> Template,
           ret |-> FALSE, flushes |-> 0, filter_sets |-> 0, packets_in |-> 0,
           scanned |-> 0, read_end |-> 0]

(***************************************************************************)
(* Datagrams the control socket can deliver                                *)
(***************************************************************************)
Ssrcs == 1 .. (Nchannels + 1)

Bodies ==
  { <<>>,
    << <<"RADIO_FREQUENCY", 7074000>> >>,
    << <<"DEMOD_TYPE", SPECT_DEMOD>>, <<"BIN_COUNT", 128>> >>,
    << <<"BIN_COUNT", 256>> >> }

\* A datagram as its sender built it: the packet type byte, the TLVs, EOL.
Datagram(type, tlvs) ==
  [type |-> type, buffer |-> tlvs \o <<EOL>>, length |-> 1 + Size(tlvs) + 1]

Datagrams ==
  { Datagram("CMD", << <<"OUTPUT_SSRC", s>> >> \o b) : s \in Ssrcs, b \in Bodies }
  \cup { [type |-> "CMD", buffer |-> <<>>, length |-> 1],
         Datagram("CMD", << <<"RADIO_FREQUENCY", 7074000>>, <<"OUTPUT_SSRC", 0>> >>),
         Datagram("CMD", << <<"OUTPUT_SSRC", BROADCAST>> >>),
         Datagram("CMD", << <<"RADIO_FREQUENCY", 7074000>>,
                            <<"OUTPUT_SSRC", BROADCAST>> >>),
         Datagram("STATUS", << <<"OUTPUT_SSRC", 1>> >>) }

(***************************************************************************)
(* radio_status: the command thread                                        *)
(***************************************************************************)
PollChan_all_at_once(chan, i) ==
  IF chan.inuse /\ chan.ssrc # BROADCAST /\ chan.ssrc # 0
    THEN [chan EXCEPT !.global_timer = 1]
    ELSE chan

PollChan_one_at_a_time(chan, i) ==
  IF chan.inuse /\ chan.ssrc # BROADCAST /\ chan.ssrc # 0
    THEN [chan EXCEPT !.global_timer = i + 1]
    ELSE chan

\* case 0xffffffff, one turn of the loop: under the lock of channel i, ask
\* its thread to dump its status, two channels at a time.
PollChan(chan, i) ==
  IF chan.inuse /\ chan.ssrc # BROADCAST /\ chan.ssrc # 0
    THEN [chan EXCEPT !.global_timer = (i \div 2) + 1]
    ELSE chan

\* Back to recvfrom: the datagram buffer is dead, the handler's other locals
\* stay as the handler left them until the next datagram.
Done(c) == [c EXCEPT !.pc = "recv", !.buffer = <<>>, !.length = 0]

\* if(chan != NULL) queue the command for it, else create the channel.
Dispatch_AlwaysCreate(chan) == "create"

Dispatch(chan) == IF chan # NoChan THEN "queue" ELSE "create"

\* recvfrom, get_ssrc, the switch on ssrc and, by default, lookup_chan.
Recvfrom(arriving) ==
  /\ ctl.pc = "recv"
  /\ \E d \in arriving :
       LET ssrc == get_ssrc(d.buffer, d.length - 1)
           got == [CtlIdle EXCEPT !.type = d.type, !.buffer = d.buffer,
                                  !.length = d.length, !.ssrc = ssrc]
       IN
       /\ ncmds' = ncmds + 1
       /\ IF d.type # "CMD" \/ ssrc = 0
            THEN /\ ctl' = Done(got)
                 /\ UNCHANGED Channel_list
            ELSE IF ssrc = BROADCAST
              THEN /\ ctl' = [got EXCEPT !.pc = "poll"]
                   /\ UNCHANGED Channel_list
              ELSE /\ UNCHANGED Channel_list
                   /\ ctl' = [got EXCEPT
                                !.chan = lookup_chan(Channel_list, ssrc),
                                !.pc = Dispatch(lookup_chan(Channel_list, ssrc))]
  /\ UNCHANGED <<worker, Data_fd, status_out, dec, poll>>
  /\ UNCHANGED sync
  /\ UNCHANGED <<websdr, rx>>

radio_status_recv ==
  /\ ncmds < MaxCmds
  /\ Recvfrom(Datagrams)

\* for(i = 0; i < Nchannels; i++): one channel per step, each under its own
\* lock, so the channels' threads run between the turns of the loop.
radio_status_poll ==
  /\ ctl.pc = "poll"
  /\ IF ctl.i < Nchannels
       THEN /\ Channel_list' = [Channel_list EXCEPT
                                  ![ctl.i] = PollChan(Channel_list[ctl.i], ctl.i)]
            /\ ctl' = [ctl EXCEPT !.i = @ + 1]
       ELSE /\ ctl' = Done(ctl)
            /\ UNCHANGED Channel_list
  /\ UNCHANGED <<worker, Data_fd, status_out, ncmds, dec, poll>>
  /\ UNCHANGED sync
  /\ UNCHANGED <<websdr, rx>>

radio_status_queue_overwrite ==
  /\ ctl.pc = "queue"
  /\ ctl' = Done(ctl)
  /\ Channel_list' = [Channel_list EXCEPT
                        ![ctl.chan].command = << ctl.buffer >>,
                        ![ctl.chan].length = ctl.length - 1]
  /\ UNCHANGED <<worker, Data_fd, status_out, ncmds, dec, poll>>
  /\ UNCHANGED sync
  /\ UNCHANGED <<websdr, rx>>

radio_status_queue_drop_both ==
  /\ ctl.pc = "queue"
  /\ LET chan == Channel_list[ctl.chan] IN
     IF chan.command # NULL
       THEN /\ ctl' = Done([ctl EXCEPT !.oops = TRUE])
            /\ Channel_list' = [Channel_list EXCEPT ![ctl.chan].command = NULL,
                                                    ![ctl.chan].length = 0]
       ELSE /\ ctl' = Done(ctl)
            /\ Channel_list' = [Channel_list EXCEPT
                                  ![ctl.chan].command = << ctl.buffer >>,
                                  ![ctl.chan].length = ctl.length - 1]
  /\ UNCHANGED <<worker, Data_fd, status_out, ncmds, dec, poll>>
  /\ UNCHANGED sync
  /\ UNCHANGED <<websdr, rx>>

\* Channel already exists: queue the command in its single slot, or drop it.
radio_status_queue ==
  /\ ctl.pc = "queue"
  /\ LET chan == Channel_list[ctl.chan] IN
     IF chan.command # NULL
       THEN /\ ctl' = Done([ctl EXCEPT !.oops = TRUE])
            /\ UNCHANGED Channel_list
       ELSE /\ ctl' = Done(ctl)
            /\ Channel_list' = [Channel_list EXCEPT
                                  ![ctl.chan].command = << ctl.buffer >>,
                                  ![ctl.chan].length = ctl.length - 1]
  /\ UNCHANGED <<worker, Data_fd, status_out, ncmds, dec, poll>>
  /\ UNCHANGED sync
  /\ UNCHANGED <<websdr, rx>>

\* Channel doesn't yet exist: create_chan, or log the failure.
radio_status_create ==
  /\ ctl.pc = "create"
  /\ LET c == create_chan(Channel_list, Data_fd, ctl.ssrc) IN
     IF c = NoChan
       THEN /\ ctl' = Done([ctl EXCEPT !.logged = TRUE])
            /\ UNCHANGED <<Channel_list, status_out, ptr>>
       ELSE /\ ctl' = [ctl EXCEPT !.pc = "decode", !.chan = c]
            /\ Channel_list' = [Channel_list EXCEPT ![c] = NewChannel(ctl.ssrc)]
            /\ ptr' = [ptr EXCEPT ![c] = 0]
            /\ status_out' = [status_out EXCEPT ![c] = NoStatus]
  /\ UNCHANGED <<worker, Data_fd, ncmds, dec, poll>>
  /\ UNCHANGED <<mutex, wpc, heap, cmd>>
  /\ UNCHANGED <<websdr, rx>>

radio_status_reply_early ==
  /\ ctl.pc = "decode"
  /\ LET c == ctl.chan
         init == [Channel_list[c] EXCEPT
                    !.rtp_type = pt_from_info(Channel_list[c].samprate,
                                              Channel_list[c].channels,
                                              Channel_list[c].encoding)]
         res == decode_radio_commands_with_source(init, ctl.buffer, ctl.length - 1)
     IN /\ status_out' = [status_out EXCEPT ![c] =
                            [from |-> "ctl", pkt |-> send_radio_status_ex(init, FALSE)]]
        /\ Channel_list' = [Channel_list EXCEPT
                              ![c] = [res.chan EXCEPT !.global_timer = 0]]
        /\ ctl' = [ctl EXCEPT !.pc = "start", !.sent = @ + 1]
  /\ UNCHANGED <<worker, Data_fd, ncmds, dec, poll>>
  /\ UNCHANGED sync
  /\ UNCHANGED <<websdr, rx>>

\* Execute the rest of the command here and send status in response.
radio_status_reply ==
  /\ ctl.pc = "decode"
  /\ LET c == ctl.chan
         init == [Channel_list[c] EXCEPT
                    !.rtp_type = pt_from_info(Channel_list[c].samprate,
                                              Channel_list[c].channels,
                                              Channel_list[c].encoding)]
         res == decode_radio_commands_with_source(init, ctl.buffer, ctl.length - 1)
     IN /\ status_out' = [status_out EXCEPT ![c] =
                            [from |-> "ctl",
                             pkt |-> send_radio_status_ex(res.chan, res.ret)]]
        /\ Channel_list' = [Channel_list EXCEPT
                              ![c] = [res.chan EXCEPT !.global_timer = 0]]
        /\ ctl' = [ctl EXCEPT !.pc = "start", !.sent = @ + 1]
  /\ UNCHANGED <<worker, Data_fd, ncmds, dec, poll>>
  /\ UNCHANGED sync
  /\ UNCHANGED <<websdr, rx>>

radio_status_start_no_thread ==
  /\ ctl.pc = "start"
  /\ ctl' = Done(ctl)
  /\ UNCHANGED <<Channel_list, worker, Data_fd, status_out, ncmds, dec, poll>>
  /\ UNCHANGED sync
  /\ UNCHANGED <<websdr, rx>>

\* start_demod: the new channel's worker comes to life.
radio_status_start ==
  /\ ctl.pc = "start"
  /\ worker' = [worker EXCEPT ![ctl.chan] = TRUE]
  /\ ctl' = Done(ctl)
  /\ UNCHANGED <<Channel_list, Data_fd, status_out, ncmds, dec, poll>>
  /\ UNCHANGED sync
  /\ UNCHANGED <<websdr, rx>>

(***************************************************************************)
(* The channel worker (demod thread), one per channel in use               *)
(***************************************************************************)
\* close_chan: the channel is torn down and its slot released.
close_chan(chan) ==
  [chan EXCEPT !.inuse = FALSE, !.lifetime = 0, !.command = NULL, !.length = 0,
               !.bin_data = 0]

\* Does the next block of this channel's worker send a STATUS?
Emits(chan) ==
  /\ ~(chan.freq = 0 /\ chan.lifetime > 0 /\ chan.lifetime - 1 <= 0)
  /\ (chan.command # NULL \/ chan.global_timer = 1)

\* One block boundary of the worker of slot i: the idle countdown, then the
\* pending command (decoded and answered under the channel lock), else the
\* staggered status asked for by a poll of all channels.
Block(i) ==
  /\ worker[i]
  /\ LET chan == Channel_list[i]
         expire == chan.freq = 0 /\ chan.lifetime > 0 /\ chan.lifetime - 1 <= 0
         aged == IF chan.freq = 0 /\ chan.lifetime > 0
                   THEN [chan EXCEPT !.lifetime = @ - 1] ELSE chan
     IN
     IF expire
       THEN /\ Channel_list' = [Channel_list EXCEPT ![i] = close_chan(aged)]
            /\ worker' = [worker EXCEPT ![i] = FALSE]
            /\ UNCHANGED status_out
       ELSE IF aged.command # NULL
         THEN LET res == decode_radio_commands(aged, aged.command[1], aged.length) IN
              /\ status_out' = [status_out EXCEPT ![i] =
                                  [from |-> "worker",
                                   pkt |-> send_radio_status_ex(res.chan, res.ret)]]
              /\ Channel_list' = [Channel_list EXCEPT
                                    ![i] = [res.chan EXCEPT !.global_timer = 0,
                                                            !.command = NULL,
                                                            !.length = 0]]
              /\ UNCHANGED worker
         ELSE IF aged.global_timer # 0 /\ aged.global_timer - 1 <= 0
           THEN /\ status_out' = [status_out EXCEPT ![i] =
                                    [from |-> "worker", pkt |-> send_radio_status(aged)]]
                /\ Channel_list' = [Channel_list EXCEPT
                                      ![i] = [aged EXCEPT !.global_timer = 0]]
                /\ UNCHANGED worker
           ELSE /\ Channel_list' = [Channel_list EXCEPT
                                      ![i] = [aged EXCEPT !.global_timer =
                                                IF @ # 0 THEN @ - 1 ELSE @]]
                /\ UNCHANGED <<worker, status_out>>
  /\ UNCHANGED <<Data_fd, ctl, ncmds, dec>>
  /\ UNCHANGED sync
  /\ UNCHANGED <<websdr, rx>>

WorkerBlock(i) == Block(i) /\ UNCHANGED poll

\* The spectrum worker, at a safe point, notices that bin_count no longer
\* matches its buffer and reallocates bin_data.
SpectrumRealloc(i) ==
  /\ worker[i]
  /\ Channel_list[i].demod_type = SPECT_DEMOD
  /\ Channel_list[i].bin_data # Channel_list[i].bin_count
  /\ Channel_list' = [Channel_list EXCEPT ![i].bin_data = Channel_list[i].bin_count]
  /\ UNCHANGED <<worker, Data_fd, ctl, status_out, ncmds, dec, poll>>
  /\ UNCHANGED sync
  /\ UNCHANGED <<websdr, rx>>

(***************************************************************************)
(* radiod: the command thread and the workers, interleaved                 *)
(***************************************************************************)
\* A channel set up from the configuration file at startup: tuned, running.
StaticChannel(ssrc) ==
  [NewChannel(ssrc) EXCEPT !.freq = 7074000,
                           !.rtp_type = pt_from_info(Template.samprate,
                                                     Template.channels,
                                                     Template.encoding)]

\* The first n slots hold the channels of the configuration file.
Init ==
  /\ \E n \in 0 .. Nchannels :
       /\ Channel_list = [i \in Slots |->
                            IF i < n THEN StaticChannel(i + 1) ELSE Template]
       /\ worker = [i \in Slots |-> i < n]
  /\ Data_fd \in BOOLEAN
  /\ ctl = CtlIdle
  /\ status_out = [i \in Slots |-> NoStatus]
  /\ ncmds = 0
  /\ dec = DecOff
  /\ poll = NoPoll
  /\ SyncOff
  /\ WebsdrOff
  /\ rx = RxOff

Next ==
  \/ radio_status_recv
  \/ radio_status_poll
  \/ radio_status_queue
  \/ radio_status_create
  \/ radio_status_reply
  \/ radio_status_start
  \/ \E i \in Slots : WorkerBlock(i)
  \/ \E i \in Slots : SpectrumRealloc(i)

Spec == Init /\ [][Next]_vars

(***************************************************************************)
(* One command decoded on one channel: decode_radio_commands on every      *)
(* packet of up to MaxTags TLVs, on each kind of running channel, followed *)
(* by the STATUS sent in response.                                         *)
(***************************************************************************)
TLVs ==
  { <<"COMMAND_TAG", 7>>,
    <<"OUTPUT_SAMPRATE", 24000>>, <<"OUTPUT_SAMPRATE", 32010>>,
    <<"RADIO_FREQUENCY", 7074000>>, <<"RADIO_FREQUENCY", 0>>,
    <<"LOW_EDGE", 0 - 1500>>, <<"HIGH_EDGE", 1500>>, <<"LOW_EDGE", NAN>>,
    <<"KAISER_BETA", 5>>,
    <<"PRESET", "ft8">>, <<"PRESET", "fm">>, <<"PRESET", "nosuch">>,
    <<"DEMOD_TYPE", FM_DEMOD>>, <<"DEMOD_TYPE", SPECT_DEMOD>>,
    <<"OUTPUT_CHANNELS", 2>>,
    <<"OUTPUT_ENCODING", OPUS>>,
    <<"NONCOHERENT_BIN_BW", 100>>, <<"BIN_COUNT", 256>>,
    <<"DESCRIPTION", 0>> }

Packets == UNION { [1 .. n -> TLVs] : n \in 0 .. MaxTags }

\* A channel just created for ssrc 1, before any tag is applied.
Fresh ==
  [NewChannel(1) EXCEPT !.rtp_type = pt_from_info(Template.samprate,
                                                  Template.channels,
                                                  Template.encoding)]

\* The worker has started: a spectrum channel has its bin buffer.
Running(chan) ==
  IF chan.demod_type = SPECT_DEMOD
    THEN [chan EXCEPT !.bin_data = chan.bin_count] ELSE chan

\* The commands that made the channels the packets are decoded on.
SetupPackets ==
  { <<>>,
    << <<"PRESET", "ft8">>, <<"RADIO_FREQUENCY", 7074000>> >>,
    << <<"PRESET", "fm">>, <<"RADIO_FREQUENCY", 162550000>>, <<"COMMAND_TAG", 3>> >>,
    << <<"OUTPUT_SAMPRATE", 32000>>, <<"RADIO_FREQUENCY", 7074000>> >>,
    << <<"DEMOD_TYPE", SPECT_DEMOD>>, <<"BIN_COUNT", 128>>,
       <<"RADIO_FREQUENCY", 7074000>> >> }

DecodeChans ==
  { Running(decode_radio_commands(Fresh, p \o <<EOL>>, Size(p) + 1).chan) :
      p \in SetupPackets }
  \cup { [Fresh EXCEPT !.lifetime = 1] }

\* The lengths a command body p (sent with its EOL) can arrive with: whole,
\* without its EOL, and one byte shorter still.
Lengths(p) ==
  {Size(p) + 1}
    \cup (IF Len(p) >= 1 /\ Len(p) <= MaxCut THEN {Size(p), Size(p) - 1} ELSE {})

InitDecode ==
  /\ \E c \in DecodeChans :
       Channel_list = [i \in Slots |-> IF i = 0 THEN c ELSE Template]
  /\ worker = [i \in Slots |-> i = 0]
  /\ Data_fd = TRUE
  /\ ctl = CtlIdle
  /\ status_out = [i \in Slots |-> NoStatus]
  /\ ncmds = 0
  /\ poll = NoPoll
  /\ SyncOff
  /\ WebsdrOff
  /\ rx = RxOff
  /\ \E p \in Packets : \E n \in Lengths(p) :
       dec = [DecOff EXCEPT !.pc = "cmd", !.pkt = p, !.length = n]

\* The command is decoded on channel 0.
DecodeCmd ==
  /\ dec.pc = "cmd"
  /\ LET res == decode_radio_commands(Channel_list[0], dec.pkt \o <<EOL>>,
                                      dec.length)
     IN
     /\ Channel_list' = [Channel_list EXCEPT ![0] = res.chan]
     /\ dec' = [dec EXCEPT !.pc = "decoded", !.pre = Channel_list[0],
                           !.ret = res.ret, !.flushes = res.flushes,
                           !.filter_sets = res.filter_sets,
                           !.packets_in = res.packets_in,
                           !.scanned = res.scanned,
                           !.read_end = res.read_end]
  /\ UNCHANGED <<worker, Data_fd, ctl, status_out, ncmds, poll>>
  /\ UNCHANGED sync
  /\ UNCHANGED <<websdr, rx>>

\* Status is sent in response.
DecodeStatus ==
  /\ dec.pc = "decoded"
  /\ status_out' = [status_out EXCEPT ![0] =
                      [from |-> "worker",
                       pkt |-> send_radio_status_ex(Channel_list[0], dec.ret)]]
  /\ dec' = [dec EXCEPT !.pc = "done"]
  /\ UNCHANGED <<Channel_list, worker, Data_fd, ctl, ncmds, poll>>
  /\ UNCHANGED sync
  /\ UNCHANGED <<websdr, rx>>

NextDecode == DecodeCmd \/ DecodeStatus

SpecDecode == InitDecode /\ [][NextDecode]_vars

(***************************************************************************)
(* Commands that set the size of the spectrum, and the STATUS that answers *)
(* them.  The STATUS is built in a buffer of PKTSIZE bytes on the stack of *)
(* send_radio_status_ex; the encoders are given no limit.                  *)
(***************************************************************************)
PKTSIZE == 65536

BinCounts == {1, 256, 16000, 20000, 1000000}

VectorTLVs ==
  { <<"BIN_COUNT", n>> : n \in BinCounts }
    \cup { <<"DEMOD_TYPE", SPECT_DEMOD>>, <<"NONCOHERENT_BIN_BW", 100>>,
           <<"COMMAND_TAG", 7>> }

VectorPackets == UNION { [1 .. n -> VectorTLVs] : n \in 1 .. 2 }

\* The bytes a STATUS takes at least: the packet type, and when it carries
\* BIN_DATA the type and length of the vector and four bytes for each bin.
EncodedSize(pkt) ==
  1 + (IF pkt.vector_len = Absent THEN 0 ELSE 2 + 4 * pkt.vector_len[1])

InitVector ==
  /\ \E c \in DecodeChans :
       Channel_list = [i \in Slots |-> IF i = 0 THEN c ELSE Template]
  /\ worker = [i \in Slots |-> i = 0]
  /\ Data_fd = TRUE
  /\ ctl = CtlIdle
  /\ status_out = [i \in Slots |-> NoStatus]
  /\ ncmds = 0
  /\ poll = NoPoll
  /\ SyncOff
  /\ WebsdrOff
  /\ rx = RxOff
  /\ \E p \in VectorPackets :
       dec = [DecOff EXCEPT !.pc = "cmd", !.pkt = p, !.length = Size(p) + 1]

SpecVector == InitVector /\ [][NextDecode]_vars

(***************************************************************************)
(* The same command decoded twice in succession on one channel, as when a  *)
(* client sends its command again.                                         *)
(***************************************************************************)
\* The command is decoded on channel 0 a second time.
DecodeTwice ==
  /\ dec.pc = "decoded"
  /\ LET res == decode_radio_commands(Channel_list[0], dec.pkt \o <<EOL>>,
                                      dec.length)
     IN
     /\ Channel_list' = [Channel_list EXCEPT ![0] = res.chan]
     /\ dec' = [dec EXCEPT !.pc = "twice", !.once = Channel_list[0],
                           !.ret = res.ret, !.flushes = res.flushes,
                           !.filter_sets = res.filter_sets,
                           !.packets_in = dec.packets_in + res.packets_in,
                           !.scanned = res.scanned]
  /\ UNCHANGED <<worker, Data_fd, ctl, status_out, ncmds, poll>>
  /\ UNCHANGED sync
  /\ UNCHANGED <<websdr, rx>>

NextTwice == DecodeCmd \/ DecodeTwice

SpecTwice == InitDecode /\ [][NextTwice]_vars

(***************************************************************************)
(* A sequence of commands on one running channel, each answered by its     *)
(* STATUS, with the blocks of an FM demodulator in between.                *)
(***************************************************************************)
\* Squelch metrics (SNR as a power ratio) the demodulator can measure.
Metrics == {dB2power(0 - 20), dB2power(20)}

\* The squelch state machine of the FM demodulators, one block; the tail
\* of a closing squelch is one block long.
fm_squelch(chan, snr) ==
  LET squelch_always_open == chan.squelch_open = 0 /\ chan.squelch_close = 0 IN
  IF squelch_always_open \/ snr >= chan.squelch_open
    THEN "OPEN"
    ELSE CASE chan.squelch_state = "OPEN" ->
                IF snr < chan.squelch_close THEN "CLOSING" ELSE "OPEN"
           [] chan.squelch_state = "CLOSING" -> "CLOSED"
           [] OTHER -> "CLOSED"

SeqTLVs ==
  { <<"SQUELCH_OPEN", 0 - 999>>, <<"SQUELCH_OPEN", 10>>,
    <<"SQUELCH_CLOSE", 0 - 1000>>, <<"SQUELCH_CLOSE", 9>>,
    <<"LOW_EDGE", 0 - 20000>>, <<"LOW_EDGE", 4000>>,
    <<"HIGH_EDGE", 20000>>, <<"HIGH_EDGE", 1500>>,
    <<"OUTPUT_SAMPRATE", 8000>>,
    <<"PRESET", "ft8">>, <<"PRESET", "fm">> }

SeqPackets == UNION { [1 .. n -> SeqTLVs] : n \in 0 .. MaxSeqTags }

InitSeq ==
  /\ \E p \in { <<>>, << <<"PRESET", "fm">> >> } :
       Channel_list =
         [i \in Slots |->
            IF i = 0
              THEN decode_radio_commands(
                     Fresh, p \o << <<"RADIO_FREQUENCY", 7074000>>, EOL >>,
                     Size(p) + 7).chan
              ELSE Template]
  /\ worker = [i \in Slots |-> i = 0]
  /\ Data_fd = TRUE
  /\ ctl = CtlIdle
  /\ status_out = [i \in Slots |-> NoStatus]
  /\ ncmds = 0
  /\ dec = [DecOff EXCEPT !.pc = "done"]
  /\ poll = NoPoll
  /\ SyncOff
  /\ WebsdrOff
  /\ rx = RxOff

\* The next command of the sequence is decoded on channel 0.
SeqCmd ==
  /\ dec.pc = "done"
  /\ ncmds < MaxSeq
  /\ \E p \in SeqPackets :
       LET res == decode_radio_commands(Channel_list[0], p \o <<EOL>>, Size(p) + 1)
       IN
       /\ Channel_list' = [Channel_list EXCEPT ![0] = res.chan]
       /\ dec' = [dec EXCEPT !.pc = "decoded", !.pkt = p, !.length = Size(p) + 1,
                             !.ret = res.ret,
                             !.flushes = res.flushes,
                             !.filter_sets = res.filter_sets,
                             !.packets_in = res.packets_in,
                             !.scanned = res.scanned]
  /\ ncmds' = ncmds + 1
  /\ UNCHANGED <<worker, Data_fd, ctl, status_out, poll>>
  /\ UNCHANGED sync
  /\ UNCHANGED <<websdr, rx>>

\* One block of the FM demodulator of channel 0: it measures the squelch
\* metric and moves the squelch.
DemodBlock ==
  /\ dec.pc = "done"
  /\ Channel_list[0].demod_type \in {FM_DEMOD, WFM_DEMOD}
  /\ \E snr \in Metrics :
       Channel_list' = [Channel_list EXCEPT
                          ![0].fm_snr = snr,
                          ![0].squelch_state = fm_squelch(Channel_list[0], snr)]
  /\ UNCHANGED <<worker, Data_fd, ctl, status_out, ncmds, dec, poll>>
  /\ UNCHANGED sync
  /\ UNCHANGED <<websdr, rx>>

NextSeq == SeqCmd \/ DecodeStatus \/ DemodBlock

SpecSeq == InitSeq /\ [][NextSeq]_vars

(***************************************************************************)
(* One poll of all channels (CMD for ssrc 0xffffffff) and the blocks the   *)
(* channels' workers run after the loop has reached them, counted per      *)
(* channel in poll.                                                        *)
(***************************************************************************)
\* A channel created by a command and never tuned: it counts down to expiry.
IdleChannel(ssrc) ==
  [NewChannel(ssrc) EXCEPT !.rtp_type = pt_from_info(Template.samprate,
                                                     Template.channels,
                                                     Template.encoding)]

InitPoll ==
  /\ \E kind \in [Slots -> {"free", "static", "idle"}] :
       Channel_list = [i \in Slots |->
                         CASE kind[i] = "free" -> Template
                           [] kind[i] = "static" -> StaticChannel(i + 1)
                           [] kind[i] = "idle" -> IdleChannel(i + 1)]
  /\ worker = [i \in Slots |-> Channel_list[i].inuse]
  /\ Data_fd = TRUE
  /\ ctl = CtlIdle
  /\ status_out = [i \in Slots |-> NoStatus]
  /\ ncmds = 0
  /\ dec = DecOff
  /\ poll = NoPoll
  /\ SyncOff
  /\ WebsdrOff
  /\ rx = RxOff

\* The poll arrives.
PollRecv ==
  /\ ctl.pc = "recv"
  /\ ncmds = 0
  /\ LET d == Datagram("CMD", << <<"OUTPUT_SSRC", BROADCAST>> >>) IN
     /\ get_ssrc(d.buffer, d.length - 1) = BROADCAST
     /\ ctl' = [CtlIdle EXCEPT !.type = d.type, !.buffer = d.buffer,
                               !.length = d.length, !.ssrc = BROADCAST,
                               !.pc = "poll"]
  /\ ncmds' = 1
  /\ UNCHANGED <<Channel_list, worker, Data_fd, status_out, dec, poll>>
  /\ UNCHANGED sync
  /\ UNCHANGED <<websdr, rx>>

\* Has the loop of the poll been to slot i?
Visited(i) == ncmds = 1 /\ (ctl.pc = "recv" \/ ctl.i > i)

\* A block of the worker of slot i, counted once the poll has reached it.
PollBlock(i) ==
  /\ poll[i].blocks < MaxBlocks
  /\ Block(i)
  /\ poll' =
       IF Visited(i)
         THEN [poll EXCEPT
                 ![i].blocks = @ + 1,
                 ![i].emitted = IF Emits(Channel_list[i]) THEN @ + 1 ELSE @,
                 ![i].tick = IF Emits(Channel_list[i])
                               THEN poll[i].blocks + 1 ELSE @]
         ELSE poll

NextPoll ==
  \/ PollRecv
  \/ radio_status_poll
  \/ \E i \in Slots : PollBlock(i)

SpecPoll == InitPoll /\ [][NextPoll]_vars

(***************************************************************************)
(* Locks and command buffers, step by step: the command thread and the     *)
(* workers take and release the channels' status.lock one call at a time,  *)
(* and every malloc and free of a command buffer is a step.                *)
(***************************************************************************)
LockDatagrams ==
  { Datagram("CMD", << <<"OUTPUT_SSRC", 1>> >>),
    Datagram("CMD", << <<"OUTPUT_SSRC", 1>>, <<"RADIO_FREQUENCY", 7074000>> >>),
    Datagram("CMD", << <<"OUTPUT_SSRC", 2>> >>),
    Datagram("CMD", << <<"OUTPUT_SSRC", BROADCAST>> >>) }

\* FREE(p): free the buffer and note who did; freeing NULL does nothing.
Free(h, p, who) ==
  IF p = 0 THEN h
  ELSE [h EXCEPT ![p].live = FALSE, ![p].frees = min(@ + 1, 2), ![p].by = who]

\* A read of the bytes p points to.
ReadBuffer(h, p) ==
  IF p # 0 /\ ~h[p].live THEN [h EXCEPT ![p].read_after_free = TRUE] ELSE h

InitLock ==
  /\ \E kind \in {"free", "static", "idle"} :
       Channel_list = [i \in Slots |->
                         IF i # 0 THEN Template
                         ELSE CASE kind = "free" -> Template
                                [] kind = "static" -> StaticChannel(1)
                                [] kind = "idle" -> IdleChannel(1)]
  /\ worker = [i \in Slots |-> Channel_list[i].inuse]
  /\ Data_fd = TRUE
  /\ ctl = CtlIdle
  /\ status_out = [i \in Slots |-> NoStatus]
  /\ ncmds = 0
  /\ dec = DecOff
  /\ poll = NoPoll
  /\ SyncOff
  /\ WebsdrOff
  /\ rx = RxOff

\* recvfrom returns a datagram; the thread holds no lock while it waits.
lock_recvfrom ==
  /\ ncmds < MaxCmds
  /\ Recvfrom(LockDatagrams)

\* pthread_mutex_lock(&chan->status.lock) in the loop over all channels;
\* after the last channel, back to recvfrom.
lock_poll_lock ==
  /\ ctl.pc = "poll"
  /\ IF ctl.i < Nchannels
       THEN /\ mutex[ctl.i] = "free"
            /\ mutex' = [mutex EXCEPT ![ctl.i] = "ctl"]
            /\ ctl' = [ctl EXCEPT !.pc = "poll_locked"]
       ELSE /\ ctl' = Done(ctl)
            /\ UNCHANGED mutex
  /\ UNCHANGED <<Channel_list, worker, Data_fd, status_out, ncmds, dec, poll>>
  /\ UNCHANGED <<wpc, heap, cmd, ptr>>
  /\ UNCHANGED <<websdr, rx>>

\* The timer is set and the lock released before the loop goes on.
lock_poll_unlock ==
  /\ ctl.pc = "poll_locked"
  /\ Channel_list' = [Channel_list EXCEPT
                        ![ctl.i] = PollChan(Channel_list[ctl.i], ctl.i)]
  /\ mutex' = [mutex EXCEPT ![ctl.i] = "free"]
  /\ ctl' = [ctl EXCEPT !.pc = "poll", !.i = @ + 1]
  /\ UNCHANGED <<worker, Data_fd, status_out, ncmds, dec, poll>>
  /\ UNCHANGED <<wpc, heap, cmd, ptr>>
  /\ UNCHANGED <<websdr, rx>>

\* cmd = malloc(length-1); memcpy(cmd,buffer+1,length-1), no lock held.
lock_malloc ==
  /\ ctl.pc = "queue"
  /\ heap' = [heap EXCEPT ![ncmds] = [NoBuffer EXCEPT !.live = TRUE]]
  /\ cmd' = ncmds
  /\ ctl' = [ctl EXCEPT !.pc = "lock"]
  /\ UNCHANGED <<Channel_list, worker, Data_fd, status_out, ncmds, dec, poll>>
  /\ UNCHANGED <<mutex, wpc, ptr>>
  /\ UNCHANGED <<websdr, rx>>

\* pthread_mutex_lock(&chan->status.lock) of the channel the lookup found.
lock_lock ==
  /\ ctl.pc = "lock"
  /\ mutex[ctl.chan] = "free"
  /\ mutex' = [mutex EXCEPT ![ctl.chan] = "ctl"]
  /\ ctl' = [ctl EXCEPT !.pc = "locked"]
  /\ UNCHANGED <<Channel_list, worker, Data_fd, status_out, ncmds, dec, poll>>
  /\ UNCHANGED <<wpc, heap, cmd, ptr>>
  /\ UNCHANGED <<websdr, rx>>

lock_store_keep_lock ==
  /\ ctl.pc = "locked"
  /\ IF Channel_list[ctl.chan].command # NULL
       THEN /\ ctl' = [ctl EXCEPT !.pc = "unlocked", !.oops = TRUE]
            /\ UNCHANGED <<Channel_list, ptr, mutex>>
       ELSE /\ ctl' = [ctl EXCEPT !.pc = "unlocked"]
            /\ Channel_list' = [Channel_list EXCEPT
                                  ![ctl.chan].command = << ctl.buffer >>,
                                  ![ctl.chan].length = ctl.length - 1]
            /\ ptr' = [ptr EXCEPT ![ctl.chan] = cmd]
            /\ mutex' = [mutex EXCEPT ![ctl.chan] = "free"]
  /\ UNCHANGED <<worker, Data_fd, status_out, ncmds, dec, poll>>
  /\ UNCHANGED <<wpc, heap, cmd>>
  /\ UNCHANGED <<websdr, rx>>

\* Under the lock: hand the buffer to the channel if its slot is empty,
\* note oops otherwise; then pthread_mutex_unlock.
lock_store ==
  /\ ctl.pc = "locked"
  /\ IF Channel_list[ctl.chan].command # NULL
       THEN /\ ctl' = [ctl EXCEPT !.pc = "unlocked", !.oops = TRUE]
            /\ UNCHANGED <<Channel_list, ptr>>
       ELSE /\ ctl' = [ctl EXCEPT !.pc = "unlocked"]
            /\ Channel_list' = [Channel_list EXCEPT
                                  ![ctl.chan].command = << ctl.buffer >>,
                                  ![ctl.chan].length = ctl.length - 1]
            /\ ptr' = [ptr EXCEPT ![ctl.chan] = cmd]
  /\ mutex' = [mutex EXCEPT ![ctl.chan] = "free"]
  /\ UNCHANGED <<worker, Data_fd, status_out, ncmds, dec, poll>>
  /\ UNCHANGED <<wpc, heap, cmd>>
  /\ UNCHANGED <<websdr, rx>>

\* if(oops) FREE(cmd), after the unlock; then back to recvfrom.
lock_free ==
  /\ ctl.pc = "unlocked"
  /\ heap' = IF ctl.oops THEN Free(heap, cmd, "ctl") ELSE heap
  /\ ctl' = Done(ctl)
  /\ UNCHANGED <<Channel_list, worker, Data_fd, status_out, ncmds, dec, poll>>
  /\ UNCHANGED <<mutex, wpc, cmd, ptr>>
  /\ UNCHANGED <<websdr, rx>>

\* The master FFT announces the next block to the worker of slot i, which
\* was waiting for it: the idle countdown, then either the teardown or the
\* way to the channel's lock.
worker_wake(i) ==
  /\ worker[i]
  /\ wpc[i] = "fft"
  /\ LET chan == Channel_list[i]
         expire == chan.freq = 0 /\ chan.lifetime > 0 /\ chan.lifetime - 1 <= 0
         aged == IF chan.freq = 0 /\ chan.lifetime > 0
                   THEN [chan EXCEPT !.lifetime = @ - 1] ELSE chan
     IN /\ Channel_list' = [Channel_list EXCEPT ![i] = aged]
        /\ wpc' = [wpc EXCEPT ![i] = IF expire THEN "close" ELSE "lock"]
  /\ UNCHANGED <<worker, Data_fd, ctl, status_out, ncmds, dec, poll>>
  /\ UNCHANGED <<mutex, heap, cmd, ptr>>
  /\ UNCHANGED <<websdr, rx>>

\* The worker takes its channel's lock.
worker_lock(i) ==
  /\ worker[i]
  /\ wpc[i] = "lock"
  /\ mutex[i] = "free"
  /\ mutex' = [mutex EXCEPT ![i] = "worker"]
  /\ wpc' = [wpc EXCEPT ![i] = "locked"]
  /\ UNCHANGED <<Channel_list, worker, Data_fd, ctl, status_out, ncmds, dec, poll>>
  /\ UNCHANGED <<heap, cmd, ptr>>
  /\ UNCHANGED <<websdr, rx>>

\* Under the lock: the pending command is decoded, answered and freed, else
\* the staggered status is sent when its timer runs out; then the lock is
\* released and the worker goes to wait for the next block.
worker_command(i) ==
  /\ worker[i]
  /\ wpc[i] = "locked"
  /\ LET chan == Channel_list[i] IN
     IF chan.command # NULL
       THEN LET res == decode_radio_commands(chan, chan.command[1], chan.length) IN
            /\ status_out' = [status_out EXCEPT ![i] =
                                [from |-> "worker",
                                 pkt |-> send_radio_status_ex(res.chan, res.ret)]]
            /\ Channel_list' = [Channel_list EXCEPT
                                  ![i] = [res.chan EXCEPT !.global_timer = 0,
                                                          !.command = NULL,
                                                          !.length = 0]]
            /\ heap' = Free(ReadBuffer(heap, ptr[i]), ptr[i], "worker")
            /\ ptr' = [ptr EXCEPT ![i] = 0]
       ELSE /\ IF chan.global_timer # 0 /\ chan.global_timer - 1 <= 0
                 THEN /\ status_out' = [status_out EXCEPT ![i] =
                                          [from |-> "worker",
                                           pkt |-> send_radio_status(chan)]]
                      /\ Channel_list' = [Channel_list EXCEPT
                                            ![i].global_timer = 0]
                 ELSE /\ Channel_list' = [Channel_list EXCEPT
                                            ![i].global_timer =
                                               IF @ # 0 THEN @ - 1 ELSE @]
                      /\ UNCHANGED status_out
            /\ UNCHANGED <<heap, ptr>>
  /\ mutex' = [mutex EXCEPT ![i] = "free"]
  /\ wpc' = [wpc EXCEPT ![i] = "fft"]
  /\ UNCHANGED <<worker, Data_fd, ctl, ncmds, dec, poll>>
  /\ UNCHANGED cmd
  /\ UNCHANGED <<websdr, rx>>

\* close_chan by the expiring worker: under the channel's lock it frees
\* what the channel owns, a command still pending included, releases the
\* lock and gives the slot back.
worker_close(i) ==
  /\ worker[i]
  /\ wpc[i] = "close"
  /\ mutex[i] = "free"
  /\ heap' = Free(heap, ptr[i], "worker")
  /\ ptr' = [ptr EXCEPT ![i] = 0]
  /\ Channel_list' = [Channel_list EXCEPT ![i] = close_chan(Channel_list[i])]
  /\ worker' = [worker EXCEPT ![i] = FALSE]
  /\ wpc' = [wpc EXCEPT ![i] = "fft"]
  /\ UNCHANGED <<Data_fd, ctl, status_out, ncmds, dec, poll>>
  /\ UNCHANGED <<mutex, cmd>>
  /\ UNCHANGED <<websdr, rx>>

NextLock ==
  \/ lock_recvfrom
  \/ lock_poll_lock
  \/ lock_poll_unlock
  \/ lock_malloc
  \/ lock_lock
  \/ lock_store
  \/ lock_free
  \/ radio_status_create
  \/ radio_status_reply
  \/ radio_status_start
  \/ \E i \in Slots : worker_wake(i)
  \/ \E i \in Slots : worker_lock(i)
  \/ \E i \in Slots : worker_command(i)
  \/ \E i \in Slots : worker_close(i)

SpecLock == InitLock /\ [][NextLock]_vars

(***************************************************************************)
(* The CWSL WebSDR front end driver (cwsl_websdr.c): setup from the        *)
(* configuration section, startup of its threads, tuning, and the UDP      *)
(* receive thread until shutdown.  Frequencies are integers in Hz and the  *)
(* calibration is in parts per million.                                    *)
(***************************************************************************)
DEFAULT_SAMPRATE == 192000

\* The receivers the server has; the driver probes receivers 0 .. 7.
Receivers == 0 .. (MaxReceivers - 1)

Probed == 0 .. 7

\* freq * (1 + calibrate)
Calibrated(freq, calibrate) == freq + ((freq * calibrate) \div 1000000)

\* The section's keys that matter here; a key that is not given is Absent.
Configs ==
  [receiver : {Absent, Present(0), Present(1)},
   frequency : {Absent, Present(7074000)},
   calibrate : {0, 2}]

\* A server: can it be reached, each receiver's L0, and the receivers it
\* lets a client attach to.
Servers ==
  [reachable : BOOLEAN,
   l0 : [Receivers -> {7000000, 14000000}],
   accepts : SUBSET Receivers]

\* config_getint(dictionary, section, key, default)
config_getint(dictionary, key, default) ==
  IF dictionary[key] = Absent THEN default ELSE dictionary[key][1]

\* The server's answer to "attach r".
Attach(srv, r) ==
  IF r \in srv.accepts
    THEN [ret |-> 0, ok |-> TRUE, l0 |-> srv.l0[r], samprate |-> DEFAULT_SAMPRATE]
    ELSE [ret |-> 0, ok |-> FALSE, l0 |-> 0, samprate |-> 0]

\* The receiver the probe loop selects: the first of those that answer OK
\* whose L0 is nearest to the target; -1 when none answers OK.
BestReceiver(srv, target_freq) ==
  LET answering == {r \in Probed : Attach(srv, r).ok}
      distance(r) == fabs(target_freq - srv.l0[r])
      nearest == {r \in answering : \A q \in answering : distance(r) <= distance(q)}
  IN IF answering = {} THEN 0 - 1
     ELSE CHOOSE r \in nearest : \A q \in nearest : r <= q

\* cwsl_attach_receiver: result code, driver and frontend afterwards.
cwsl_attach_receiver(c, fe, srv) ==
  LET receiver_id == IF c.receiver_id >= 0 THEN c.receiver_id
                     ELSE BestReceiver(srv, fe.frequency)
      response == Attach(srv, receiver_id)
  IN IF receiver_id < 0
       THEN [rc |-> 0 - 1, cwsl |-> c, frontend |-> fe]
       ELSE IF ~response.ok
         THEN [rc |-> 0 - 1, cwsl |-> [c EXCEPT !.receiver_id = receiver_id],
               frontend |-> fe]
         ELSE [rc |-> 0,
               cwsl |-> [c EXCEPT !.receiver_id = receiver_id,
                                  !.l0_frequency = response.l0],
               frontend |-> [fe EXCEPT !.samprate = response.samprate]]

\* cwsl_disconnect: stop, detach, quit, close the sockets.
cwsl_disconnect(c) ==
  IF ~c.connected THEN c
  ELSE [c EXCEPT !.streaming = FALSE, !.tcp_fd = 0 - 1, !.udp_fd = 0 - 1,
                 !.connected = FALSE]

\* calloc'ed struct cwsl_websdr and the frontend before setup.
CwslZero ==
  [receiver_id |-> 0, l0_frequency |-> 0, connected |-> FALSE,
   streaming |-> FALSE, tcp_fd |-> 0, udp_fd |-> 0]

FrontendZero == [frequency |-> 0, lock |-> FALSE, calibrate |-> 0, samprate |-> 0]

NoTune == [called |-> FALSE, freq |-> 0, locked |-> FALSE, before |-> 0,
           sent |-> FALSE, response |-> "none", ret |-> 0]

CwStart == [pc |-> "setup", setup_ret |-> 0, udp |-> "off", tune |-> NoTune,
            tcp_mutex |-> "free", tuner |-> "idle", inside |-> {}]

\* radiod's control plane at rest.
RadiodOff ==
  /\ Channel_list = [i \in Slots |-> Template]
  /\ worker = [i \in Slots |-> FALSE]
  /\ Data_fd = FALSE
  /\ ctl = CtlIdle
  /\ status_out = [i \in Slots |-> NoStatus]
  /\ ncmds = 0
  /\ dec = DecOff
  /\ poll = NoPoll
  /\ SyncOff

InitCwsl ==
  /\ RadiodOff
  /\ rx = RxOff
  /\ config \in Configs
  /\ server \in Servers
  /\ frontend = FrontendZero
  /\ cwsl = CwslZero
  /\ Stop_transfers = FALSE
  /\ cw = CwStart

\* The result of cwsl_websdr_setup: return value, driver, frontend.
Setup(cfg, fe0, srv) ==
  LET c1 == [CwslZero EXCEPT
               !.receiver_id = config_getint(cfg, "receiver", 0 - 1)]
      fe1 == [fe0 EXCEPT !.samprate = DEFAULT_SAMPRATE]
      init_frequency == config_getint(cfg, "frequency", 0)
      fe2 == IF init_frequency # 0
               THEN [fe1 EXCEPT !.frequency = init_frequency, !.lock = TRUE]
               ELSE fe1
      c2 == [c1 EXCEPT !.connected = TRUE, !.tcp_fd = 3]
      att == cwsl_attach_receiver(c2, fe2, srv)
  IN IF init_frequency = 0 /\ c1.receiver_id < 0
       THEN [ret |-> 0 - 1, cwsl |-> c1, frontend |-> fe2]
       ELSE IF ~srv.reachable
         THEN [ret |-> 0 - 1, cwsl |-> c1, frontend |-> fe2]
         ELSE IF att.rc # 0
           THEN [ret |-> 0 - 1, cwsl |-> cwsl_disconnect(att.cwsl),
                 frontend |-> att.frontend]
           ELSE [ret |-> 0, cwsl |-> att.cwsl,
                 frontend |->
                   [att.frontend EXCEPT
                      !.frequency = Calibrated(att.cwsl.l0_frequency,
                                               att.frontend.calibrate),
                      !.calibrate = cfg.calibrate]]

\* cwsl_websdr_setup, called once with the driver's section.
cwsl_websdr_setup ==
  /\ cw.pc = "setup"
  /\ LET res == Setup(config, frontend, server) IN
     /\ cwsl' = res.cwsl
     /\ frontend' = res.frontend
     /\ cw' = [cw EXCEPT !.pc = IF res.ret = 0 THEN "startup" ELSE "failed",
                         !.setup_ret = res.ret]
  /\ UNCHANGED <<config, server, Stop_transfers>>
  /\ UNCHANGED <<radiod, rx>>

\* cwsl_websdr_startup: "start iq" is answered OK or not; on OK the
\* keepalive and UDP receive threads are created.
cwsl_websdr_startup ==
  /\ cw.pc = "startup"
  /\ \E ok \in BOOLEAN :
       IF ok
         THEN /\ cwsl' = [cwsl EXCEPT !.udp_fd = 4, !.streaming = TRUE]
              /\ cw' = [cw EXCEPT !.pc = "running", !.udp = "test"]
         ELSE /\ cwsl' = [cwsl EXCEPT !.udp_fd = 4]
              /\ cw' = [cw EXCEPT !.pc = "failed"]
  /\ UNCHANGED <<config, frontend, server, Stop_transfers>>
  /\ UNCHANGED <<radiod, rx>>

\* Frequencies radiod asks the front end for.
TuneFreqs == {7000000, 14000000}

\* What can come of a command sent to the server: an answer that starts
\* with OK, another answer, or no answer (send fails, timeout, recv fails).
Outcomes == {"OK", "ERROR", "timeout"}

\* cwsl_send_command: -1 without a connection or an answer.
cwsl_send_command(c, outcome) ==
  IF ~c.connected \/ c.tcp_fd < 0 THEN [ret |-> 0 - 1, response |-> "none"]
  ELSE IF outcome = "timeout" THEN [ret |-> 0 - 1, response |-> "none"]
  ELSE [ret |-> 0, response |-> outcome]

Tune_unacknowledged(fe, c, freq, outcome) ==
  IF fe.lock
    THEN [frontend |-> fe, sent |-> FALSE, response |-> "none", ret |-> fe.frequency]
    ELSE LET r == cwsl_send_command(c, outcome)
             fe1 == IF r.ret = 0
                      THEN [fe EXCEPT !.frequency = Calibrated(freq, fe.calibrate)]
                      ELSE fe
         IN [frontend |-> fe1, sent |-> c.connected /\ c.tcp_fd >= 0,
             response |-> r.response, ret |-> fe1.frequency]

\* cwsl_websdr_tune: the frontend afterwards, whether a command went to the
\* server, the answer, and the value returned.
Tune(fe, c, freq, outcome) ==
  IF fe.lock
    THEN [frontend |-> fe, sent |-> FALSE, response |-> "none", ret |-> fe.frequency]
    ELSE LET r == cwsl_send_command(c, outcome)
             fe1 == IF r.ret = 0 /\ r.response = "OK"
                      THEN [fe EXCEPT !.frequency = Calibrated(freq, fe.calibrate)]
                      ELSE fe
         IN [frontend |-> fe1, sent |-> c.connected /\ c.tcp_fd >= 0,
             response |-> r.response, ret |-> fe1.frequency]

cwsl_websdr_tune ==
  /\ cw.pc = "running"
  /\ \E freq \in TuneFreqs, outcome \in Outcomes :
       LET res == Tune(frontend, cwsl, freq, outcome) IN
       /\ frontend' = res.frontend
       /\ cw' = [cw EXCEPT !.tune =
                   [called |-> TRUE, freq |-> freq, locked |-> frontend.lock,
                    before |-> frontend.frequency, sent |-> res.sent,
                    response |-> res.response, ret |-> res.ret]]
  /\ UNCHANGED <<config, cwsl, server, Stop_transfers>>
  /\ UNCHANGED <<radiod, rx>>

\* SIGINT: the process-wide flag is set.
sigint ==
  /\ cw.pc = "running"
  /\ ~Stop_transfers
  /\ Stop_transfers' = TRUE
  /\ UNCHANGED <<config, frontend, cwsl, server, cw>>
  /\ UNCHANGED <<radiod, rx>>

\* cwsl_udp_read_thread, the loop condition: while(streaming && !Stop_transfers)
udp_test ==
  /\ cw.udp = "test"
  /\ cw' = [cw EXCEPT !.udp = IF cwsl.streaming /\ ~Stop_transfers
                                THEN "recv" ELSE "shutdown"]
  /\ UNCHANGED <<config, frontend, cwsl, server, Stop_transfers>>
  /\ UNCHANGED <<radiod, rx>>

\* recv(udp_fd) returns: a datagram of samples, one too short to hold a
\* sample, an interruption by a signal (EINTR), or an error.  The thread
\* stays in recv until one of these happens.
udp_recv ==
  /\ cw.udp = "recv"
  /\ \E n \in {"samples", "short", "EINTR", "error"} :
       cw' = [cw EXCEPT !.udp = IF n = "error" THEN "shutdown" ELSE "test"]
  /\ UNCHANGED <<config, frontend, cwsl, server, Stop_transfers>>
  /\ UNCHANGED <<radiod, rx>>

\* Clean shutdown: cwsl_disconnect, then the thread returns.
udp_shutdown ==
  /\ cw.udp = "shutdown"
  /\ cwsl' = cwsl_disconnect(cwsl)
  /\ cw' = [cw EXCEPT !.udp = "done"]
  /\ UNCHANGED <<config, frontend, server, Stop_transfers>>
  /\ UNCHANGED <<radiod, rx>>

NextCwsl ==
  \/ cwsl_websdr_setup
  \/ cwsl_websdr_startup
  \/ cwsl_websdr_tune
  \/ sigint
  \/ udp_test
  \/ udp_recv
  \/ udp_shutdown

SpecCwsl == InitCwsl /\ [][NextCwsl]_vars

\* The threads of the driver are scheduled: a thread that can take a step
\* of its own takes it.  What recv returns, and when, is up to the network
\* and the signals.
SpecCwslLive ==
  /\ SpecCwsl
  /\ WF_vars(udp_test)
  /\ WF_vars(udp_shutdown)

(***************************************************************************)
(* The exchanges on the TCP control connection, one step per system call.  *)
(* cw.tcp_mutex is the holder of cwsl->tcp_mutex, cw.inside the threads    *)
(* that are inside cwsl_send_command past its entry test (in send, poll    *)
(* or recv), cw.tuner the position of the thread calling cwsl_websdr_tune. *)
(* The UDP thread runs cwsl_disconnect after its loop.                     *)
(***************************************************************************)

\* cwsl_websdr_tune is called: a locked front end returns at once.
tune_enter ==
  /\ cw.pc = "running"
  /\ cw.tuner = "idle"
  /\ \E freq \in TuneFreqs :
       cw' = [cw EXCEPT !.tuner = IF frontend.lock THEN "idle" ELSE "lock",
                        !.tune = [NoTune EXCEPT !.called = TRUE, !.freq = freq,
                                                !.locked = frontend.lock,
                                                !.before = frontend.frequency,
                                                !.ret = frontend.frequency]]
  /\ UNCHANGED <<config, frontend, cwsl, server, Stop_transfers>>
  /\ UNCHANGED <<radiod, rx>>

\* pthread_mutex_lock(&cwsl->tcp_mutex)
tune_lock ==
  /\ cw.tuner = "lock"
  /\ cw.tcp_mutex = "free"
  /\ cw' = [cw EXCEPT !.tcp_mutex = "tune", !.tuner = "command"]
  /\ UNCHANGED <<config, frontend, cwsl, server, Stop_transfers>>
  /\ UNCHANGED <<radiod, rx>>

\* cwsl_send_command, the entry test and send(): without a connection the
\* call returns -1, otherwise the command is sent and the thread polls.
tune_send ==
  /\ cw.tuner = "command"
  /\ IF ~cwsl.connected \/ cwsl.tcp_fd < 0
       THEN cw' = [cw EXCEPT !.tuner = "unlock"]
       ELSE cw' = [cw EXCEPT !.tuner = "poll", !.inside = @ \cup {"tune"},
                             !.tune.sent = TRUE]
  /\ UNCHANGED <<config, frontend, cwsl, server, Stop_transfers>>
  /\ UNCHANGED <<radiod, rx>>

\* poll() and recv() return: cwsl_send_command returns.  A closed
\* descriptor gives no answer.
tune_reply ==
  /\ cw.tuner = "poll"
  /\ \E outcome \in Outcomes :
       /\ cwsl.tcp_fd < 0 => outcome = "timeout"
       /\ cw' = [cw EXCEPT !.tuner = "unlock", !.inside = @ \ {"tune"},
                           !.tune.response =
                             IF outcome = "timeout" THEN "none" ELSE outcome]
  /\ UNCHANGED <<config, frontend, cwsl, server, Stop_transfers>>
  /\ UNCHANGED <<radiod, rx>>

\* pthread_mutex_unlock, then the frequency is taken over on an OK answer.
tune_unlock ==
  /\ cw.tuner = "unlock"
  /\ frontend' = IF cw.tune.response = "OK"
                   THEN [frontend EXCEPT !.frequency =
                           Calibrated(cw.tune.freq, frontend.calibrate)]
                   ELSE frontend
  /\ cw' = [cw EXCEPT !.tcp_mutex = "free", !.tuner = "idle",
                      !.tune.ret = frontend'.frequency]
  /\ UNCHANGED <<config, cwsl, server, Stop_transfers>>
  /\ UNCHANGED <<radiod, rx>>

\* cwsl_disconnect is entered by the UDP thread: nothing to do when not
\* connected, else "stop iq" first when streaming.
disc_enter ==
  /\ cw.udp = "shutdown"
  /\ cw' = [cw EXCEPT !.udp = IF ~cwsl.connected THEN "done"
                              ELSE IF cwsl.streaming THEN "stop"
                              ELSE "detach"]
  /\ UNCHANGED <<config, frontend, cwsl, server, Stop_transfers>>
  /\ UNCHANGED <<radiod, rx>>

\* cwsl_send_command called by cwsl_disconnect for stop, detach and quit:
\* the entry test and send().  tcp_mutex is not taken.
disc_send ==
  /\ cw.udp \in {"stop", "detach", "quit"}
  /\ "udp" \notin cw.inside
  /\ cwsl.connected /\ cwsl.tcp_fd >= 0
  /\ cw' = [cw EXCEPT !.inside = @ \cup {"udp"}]
  /\ UNCHANGED <<config, frontend, cwsl, server, Stop_transfers>>
  /\ UNCHANGED <<radiod, rx>>

\* poll() and recv() return to cwsl_disconnect, whatever the answer.
disc_reply ==
  /\ "udp" \in cw.inside
  /\ cw' = [cw EXCEPT !.inside = @ \ {"udp"},
                      !.udp = IF cw.udp = "stop" THEN "detach"
                              ELSE IF cw.udp = "detach" THEN "quit"
                              ELSE "close"]
  /\ cwsl' = IF cw.udp = "stop" THEN [cwsl EXCEPT !.streaming = FALSE] ELSE cwsl
  /\ UNCHANGED <<config, frontend, server, Stop_transfers>>
  /\ UNCHANGED <<radiod, rx>>

\* close(tcp_fd), close(udp_fd), connected = false; the thread returns.
disc_close ==
  /\ cw.udp = "close"
  /\ cwsl' = cwsl_disconnect(cwsl)
  /\ cw' = [cw EXCEPT !.udp = "done"]
  /\ UNCHANGED <<config, frontend, server, Stop_transfers>>
  /\ UNCHANGED <<radiod, rx>>

NextTcp ==
  \/ cwsl_websdr_setup
  \/ cwsl_websdr_startup
  \/ tune_enter
  \/ tune_lock
  \/ tune_send
  \/ tune_reply
  \/ tune_unlock
  \/ sigint
  \/ udp_test
  \/ udp_recv
  \/ disc_enter
  \/ disc_send
  \/ disc_reply
  \/ disc_close

SpecTcp == InitCwsl /\ [][NextTcp]_vars

(***************************************************************************)
(* rx888_test (rx888_test.c): parse the options, load firmware into every  *)
(* unloaded RX888, test every loaded RX888, exit.                          *)
(***************************************************************************)
UNLOADED_PRODUCT_ID == 243     \* 0x00f3

LOADED_PRODUCT_ID == 241       \* 0x00f1

LIBUSB_SPEED_HIGH == 3

LIBUSB_SPEED_SUPER == 4

\* A device on the bus: its product id, whether libusb_open succeeds, its
\* speed, whether interface 0 can be claimed, and whether a firmware load
\* into it succeeds.
USBDevice(product, open, speed, claim, firmware) ==
  [product |-> product, open |-> open, speed |-> speed, claim |-> claim,
   firmware |-> firmware]

DeviceKinds ==
  { USBDevice(0, TRUE, LIBUSB_SPEED_HIGH, TRUE, FALSE),
    USBDevice(UNLOADED_PRODUCT_ID, TRUE, LIBUSB_SPEED_SUPER, TRUE, TRUE),
    USBDevice(UNLOADED_PRODUCT_ID, TRUE, LIBUSB_SPEED_SUPER, TRUE, FALSE),
    USBDevice(LOADED_PRODUCT_ID, TRUE, LIBUSB_SPEED_SUPER, TRUE, TRUE),
    USBDevice(LOADED_PRODUCT_ID, TRUE, LIBUSB_SPEED_HIGH, TRUE, TRUE),
    USBDevice(LOADED_PRODUCT_ID, FALSE, LIBUSB_SPEED_SUPER, TRUE, TRUE),
    USBDevice(LOADED_PRODUCT_ID, TRUE, LIBUSB_SPEED_SUPER, FALSE, TRUE) }

DeviceLists == UNION { [1 .. n -> DeviceKinds] : n \in 0 .. MaxDevices }

\* Command lines: -h, an unknown option, no -f, and -f <firmware>.
Args == {"help", "unknown", "nofirmware", "firmware"}

InitRx888 ==
  /\ RadiodOff
  /\ WebsdrOff
  /\ \E list \in DeviceLists :
       rx = [pc |-> "main", devices |-> list, i |-> 0, loaded_count |-> 0,
             found_count |-> 0, found |-> 0, status |-> 0 - 1]

\* main up to the scan: the options, the firmware path, libusb_init.
rx888_main ==
  /\ rx.pc = "main"
  /\ \E args \in Args, libusb_init \in {0, 0 - 1} :
       rx' = IF args = "help" THEN [rx EXCEPT !.pc = "exit", !.status = 0]
             ELSE IF args \in {"unknown", "nofirmware"}
               THEN [rx EXCEPT !.pc = "exit", !.status = 1]
             ELSE IF libusb_init # 0
               THEN [rx EXCEPT !.pc = "exit", !.status = 1]
             ELSE [rx EXCEPT !.pc = "scan", !.i = 1]
  /\ UNCHANGED <<radiod, websdr>>

\* scan_and_load_firmware, one device of the list: an unloaded RX888 that
\* opens gets the firmware; when the load succeeds it comes back with the
\* loaded product id.
scan_and_load_firmware ==
  /\ rx.pc = "scan"
  /\ rx.i <= Len(rx.devices)
  /\ LET device == rx.devices[rx.i] IN
     rx' = IF device.product = UNLOADED_PRODUCT_ID /\ device.open
                /\ device.firmware
             THEN [rx EXCEPT !.i = @ + 1, !.loaded_count = @ + 1,
                             !.devices[rx.i].product = LOADED_PRODUCT_ID]
             ELSE [rx EXCEPT !.i = @ + 1]
  /\ UNCHANGED <<radiod, websdr>>

\* The scan returns; its result is not used by main.
scan_done ==
  /\ rx.pc = "scan"
  /\ rx.i > Len(rx.devices)
  /\ rx' = [rx EXCEPT !.pc = "test", !.i = 1]
  /\ UNCHANGED <<radiod, websdr>>

\* test_loaded_devices, one device of the list: every device with the
\* loaded product id is counted, then opened, its speed checked and
\* interface 0 claimed; the outcome of these is printed.
test_loaded_devices ==
  /\ rx.pc = "test"
  /\ rx.i <= Len(rx.devices)
  /\ LET device == rx.devices[rx.i] IN
     rx' = IF device.product = LOADED_PRODUCT_ID
             THEN [rx EXCEPT !.i = @ + 1, !.found_count = @ + 1]
             ELSE [rx EXCEPT !.i = @ + 1]
  /\ UNCHANGED <<radiod, websdr>>

\* test_loaded_devices returns -1 or the count, and main exits on it.
rx888_exit ==
  /\ rx.pc = "test"
  /\ rx.i > Len(rx.devices)
  /\ LET found == IF rx.found_count = 0 THEN 0 - 1 ELSE rx.found_count IN
     rx' = [rx EXCEPT !.pc = "exit", !.found = found,
                      !.status = IF found > 0 THEN 0 ELSE 1]
  /\ UNCHANGED <<radiod, websdr>>

NextRx888 ==
  \/ rx888_main
  \/ scan_and_load_firmware
  \/ scan_done
  \/ test_loaded_devices
  \/ rx888_exit

SpecRx888 == InitRx888 /\ [][NextRx888]_vars

(***************************************************************************)
(* Properties                                                              *)
(***************************************************************************)
InUse(ssrc) == {i \in Slots : Channel_list[i].inuse /\ Channel_list[i].ssrc = ssrc}

\* C1: when the command thread queues a CMD on the channel its lookup found,
\* the command goes into the channel's single pending slot only if the slot
\* is empty; if a command is already pending the new one is dropped and the
\* pending command's bytes and length stay as they were.
C1_SingleSlot ==
  [][ (ctl.pc = "queue" /\ ctl'.pc = "recv") =>
        IF Channel_list[ctl.chan].command # NULL
          THEN /\ ctl'.oops
               /\ Channel_list'[ctl.chan].command = Channel_list[ctl.chan].command
               /\ Channel_list'[ctl.chan].length = Channel_list[ctl.chan].length
          ELSE /\ ~ctl'.oops
               /\ Channel_list'[ctl.chan].command = << ctl.buffer >>
               /\ Channel_list'[ctl.chan].length = ctl.length - 1 ]_vars

\* A second command for a channel was refused while the first is pending.
C1_Witness ==
  /\ ctl.pc = "recv"
  /\ ctl.oops
  /\ Channel_list[ctl.chan].inuse
  /\ Channel_list[ctl.chan].command # NULL

\* C2: for a CMD with an unknown, unreserved ssrc whose creation succeeds,
\* the command thread creates the channel, applies the command's tags, sends
\* exactly one STATUS that shows the state after the command, and only then
\* starts the worker; no worker of the channel runs before that reply.
C2_CreateOrder ==
  /\ [](ctl.pc = "decode" =>
          /\ Channel_list[ctl.chan].inuse
          /\ Channel_list[ctl.chan].ssrc = ctl.ssrc
          /\ ctl.sent = 0
          /\ ~worker[ctl.chan])
  /\ [](ctl.pc = "start" =>
          /\ ctl.sent = 1
          /\ ~worker[ctl.chan]
          /\ status_out[ctl.chan].from = "ctl"
          /\ status_out[ctl.chan].pkt.ssrc = ctl.ssrc
          /\ \E skip \in BOOLEAN :
               status_out[ctl.chan].pkt =
                 encode_radio_status_ex(Channel_list[ctl.chan], skip))
  /\ [][ \A i \in Slots : (~worker[i] /\ worker'[i]) =>
           /\ ctl.pc = "start"
           /\ ctl.chan = i
           /\ ctl.sent = 1
           /\ ctl'.sent = 1
           /\ status_out[i].from = "ctl" ]_vars

\* A spectrum channel was created by a command, answered once, then started.
C2_Witness ==
  /\ ctl.pc = "recv"
  /\ ctl.sent = 1
  /\ ctl.chan # NoChan
  /\ worker[ctl.chan]
  /\ Channel_list[ctl.chan].ssrc = ctl.ssrc
  /\ Channel_list[ctl.chan].demod_type = SPECT_DEMOD
  /\ status_out[ctl.chan].from = "ctl"
  /\ status_out[ctl.chan].pkt.bin_count = Present(128)

C4_Bijective ==
  \A i, j \in Slots :
    (i # j /\ Channel_list[i].inuse /\ Channel_list[j].inuse)
      => Channel_list[i].ssrc # Channel_list[j].ssrc

\* A channel created by a command (still untuned) holds a further command
\* that named its ssrc, next to another channel in use.
C4_Witness ==
  \E i, j \in Slots :
    /\ i # j
    /\ Channel_list[i].inuse /\ Channel_list[j].inuse
    /\ Channel_list[i].freq = 0
    /\ Channel_list[i].command # NULL
    /\ get_ssrc(Channel_list[i].command[1], Channel_list[i].length)
         = Channel_list[i].ssrc

\* C5: a command processed on a channel refreshes lifetime to the idle
\* timeout when the channel's frequency is nonzero and does not touch it when
\* the frequency is zero (only the block's own countdown applies); so an idle
\* channel with lifetime 1 is gone after its next block, poll pending or not.
C5_LifetimeRule ==
  [][ /\ \A i \in Slots :
           (WorkerBlock(i) /\ Channel_list[i].command # NULL
            /\ Channel_list'[i].inuse) =>
             IF Channel_list[i].freq # 0
               THEN Channel_list'[i].lifetime = Channel_idle_timeout
               ELSE Channel_list'[i].lifetime = Channel_list[i].lifetime - 1
      /\ (ctl.pc = "decode" /\ ctl'.pc = "start") =>
           Channel_list'[ctl.chan].lifetime = Channel_list[ctl.chan].lifetime
      /\ \A i \in Slots :
           (WorkerBlock(i) /\ Channel_list[i].freq = 0
            /\ Channel_list[i].lifetime = 1) =>
             (~Channel_list'[i].inuse /\ ~worker'[i]) ]_vars

\* An idle channel on its last block of life with a poll waiting in its slot.
C5_Witness ==
  \E i \in Slots :
    /\ worker[i]
    /\ Channel_list[i].inuse
    /\ Channel_list[i].freq = 0
    /\ Channel_list[i].lifetime = 1
    /\ Channel_list[i].command =
         << << <<"OUTPUT_SSRC", Channel_list[i].ssrc>>, EOL >> >>

Pre == dec.pre

Post == Channel_list[0]

HasTLV(pkt, tlv) == \E k \in 1 .. Len(pkt) : pkt[k] = tlv

\* The command arrived whole, EOL included.
Complete == dec.length = Size(dec.pkt) + 1

\* C6: a packet carrying LOW_EDGE=-1500, HIGH_EDGE=1500 and PRESET=ft8 (a
\* preset whose edges are -3000/+3000), in any order, leaves min_IF=-1500
\* and max_IF=+1500, and the STATUS that follows reports these.
C6_ExplicitEdgesWin ==
  (/\ dec.pc = "done"
   /\ Complete
   /\ Len(dec.pkt) = 3
   /\ HasTLV(dec.pkt, <<"LOW_EDGE", 0 - 1500>>)
   /\ HasTLV(dec.pkt, <<"HIGH_EDGE", 1500>>)
   /\ HasTLV(dec.pkt, <<"PRESET", "ft8">>))
  => /\ Post.min_IF = 0 - 1500
     /\ Post.max_IF = 1500
     /\ status_out[0].pkt.min_IF = 0 - 1500
     /\ status_out[0].pkt.max_IF = 1500

C8_VectorMatchesBuffer ==
  \A i \in Slots :
    status_out[i].pkt.vector_len # Absent =>
      /\ status_out[i].pkt.vector_len = status_out[i].pkt.bin_count
      /\ status_out[i].pkt.vector_len = status_out[i].pkt.vector_buf

Dist(a, b) == IF a > b THEN a - b ELSE b - a

Nearest(r) == CHOOSE s \in OpusRates : \A t \in OpusRates : Dist(s, r) <= Dist(t, r)

\* The channel as the last TLV of the packet finds it.
BeforeLast ==
  LET front == SubSeq(dec.pkt, 1, Len(dec.pkt) - 1)
  IN DecodeScan(DecodeStart(Pre), front \o <<EOL>>, 0, Size(front) + 1).chan

SelectsOpus ==
  /\ dec.pc # "cmd"
  /\ Complete
  /\ Len(dec.pkt) > 0
  /\ dec.pkt[Len(dec.pkt)] = <<"OUTPUT_ENCODING", OPUS>>
  /\ BeforeLast.encoding # OPUS
  /\ ~OpusRate(BeforeLast.samprate)

\* C9 as stated: selecting Opus at a sample rate Opus does not support
\* coerces the rate to the nearest supported one and signals a restart.
C9_NearestRate ==
  SelectsOpus => (Post.samprate = Nearest(BeforeLast.samprate) /\ dec.ret)

\* C9 amended: selecting Opus at a sample rate Opus does not support sets
\* the rate to 48000 and signals a restart.
C9_Coerce48000 ==
  SelectsOpus =>
    /\ Post.encoding = OPUS
    /\ Post.samprate = 48000
    /\ Post.rtp_type = pt_from_info(48000, Post.channels, OPUS)
    /\ dec.ret

\* Opus was selected on a channel running at 32000 Hz.
C9_Witness ==
  /\ SelectsOpus
  /\ dec.pc = "done"
  /\ BeforeLast.samprate = 32000
  /\ Post.samprate = 48000
  /\ status_out[0].pkt.samprate = Present(48000)

\* C10: a command whose PRESET cannot be loaded is answered by a STATUS that
\* echoes the command's COMMAND_TAG, and every field of the channel keeps the
\* value it had before the command.
C10_FailedCommandLeavesFields ==
  (/\ dec.pc = "done"
   /\ Complete
   /\ dec.pkt = << <<"COMMAND_TAG", 7>>, <<"PRESET", "nosuch">> >>)
  => /\ status_out[0].pkt.tag = 7
     /\ Post = [Pre EXCEPT !.tag = 7]
     /\ \E skip \in BOOLEAN :
          status_out[0].pkt = encode_radio_status_ex([Pre EXCEPT !.tag = 7], skip)

\* The first TLV of the command whose value does not end before the end of
\* the datagram: 0 when every TLV does.
RECURSIVE FirstOverrun(_, _, _, _)
FirstOverrun(buffer, k, cp, length) ==
  IF k > Len(buffer) THEN 0
  ELSE IF cp + 2 + optlen(buffer[k]) > length THEN k
  ELSE FirstOverrun(buffer, k + 1, cp + 2 + optlen(buffer[k]), length)

\* A TLV of the command has its type and length bytes inside the datagram
\* and declares a value that runs past the datagram's end.
Overrun ==
  /\ dec.pc # "cmd"
  /\ FirstOverrun(dec.pkt, 1, 0, dec.length) # 0

\* C11: when a TLV's declared length runs past the end of the command
\* datagram, the scan stops there and the packet is dropped: the channel is
\* left as it was before the packet, and a counter records the drop.
C11_OverrunDropsPacket ==
  Overrun =>
    /\ dec.scanned = FirstOverrun(dec.pkt, 1, 0, dec.length) - 1
    /\ Post = Pre
    /\ dec.packets_in > 0

Valid(chan) == chan.inuse /\ chan.ssrc # 0 /\ chan.ssrc # BROADCAST

\* C12 as stated: when the command thread is done with a CMD for ssrc
\* 0xFFFFFFFF, every channel in use at index i with a valid ssrc has
\* global_timer = floor(i/2) + 1.
C12_TimersAfterPoll ==
  [][ (ctl.pc = "poll" /\ ctl'.pc = "recv") =>
        \A i \in Slots :
          Valid(Channel_list'[i]) => Channel_list'[i].global_timer = (i \div 2) + 1
    ]_vars

\* C12 amended: a CMD for ssrc 0xFFFFFFFF makes the command thread visit
\* every index i of the registry once, in order; the visit sets global_timer
\* to floor(i/2) + 1 on a channel in use with a valid ssrc and changes
\* nothing else, a channel not in use keeps its global_timer, and the packet
\* is never queued on a channel nor are its tags applied.
C12_PollVisits ==
  /\ [][ /\ (ctl.pc = "recv" /\ ctl'.pc = "poll") =>
              /\ ctl'.ssrc = BROADCAST
              /\ ctl'.i = 0
              /\ Channel_list' = Channel_list
         /\ (ctl.pc = "poll" /\ ctl'.pc = "poll" /\ ctl' # ctl) =>
              /\ ctl'.i = ctl.i + 1
              /\ ctl.i \in Slots
              /\ Channel_list' =
                   [Channel_list EXCEPT ![ctl.i] =
                      IF Valid(@) THEN [@ EXCEPT !.global_timer = (ctl.i \div 2) + 1]
                      ELSE @]
              /\ worker' = worker
              /\ status_out' = status_out
         /\ (ctl.pc = "poll" /\ ctl'.pc = "recv") =>
              /\ ctl.i = Nchannels
              /\ <<Channel_list, worker, status_out>>'
                   = <<Channel_list, worker, status_out>> ]_vars
  /\ [](ctl.ssrc = BROADCAST => (ctl.pc \in {"recv", "poll"} /\ ctl.sent = 0))

\* The loop of a poll of all channels has just ended; the last channel of
\* the table has the timer the loop gave it while the first one's thread
\* has already sent its status.
C12_Witness ==
  /\ ctl.pc = "recv"
  /\ ctl.ssrc = BROADCAST
  /\ ctl.i = Nchannels
  /\ Valid(Channel_list[Nchannels - 1])
  /\ Channel_list[Nchannels - 1].global_timer = ((Nchannels - 1) \div 2) + 1
  /\ Valid(Channel_list[0])
  /\ Channel_list[0].global_timer = 0
  /\ status_out[0].from = "worker"

\* Blocks needed to serve a poll of a table of n channels, two per block.
HalfUp(n) == (n + 1) \div 2

PollServed ==
  /\ ctl.pc = "recv"
  /\ ncmds = 1
  /\ \A i \in Slots : worker[i] => poll[i].blocks >= HalfUp(Nchannels)

RECURSIVE SumEmitted(_)
SumEmitted(n) == IF n = 0 THEN 0 ELSE poll[n - 1].emitted + SumEmitted(n - 1)

\* C13 as stated: once every worker has run the blocks that follow a poll
\* of all channels, exactly ceil(Nchannels / 2) statuses have been sent.
C13_HalfAsManyStatuses ==
  (PollServed /\ \A i \in Slots : worker[i])
    => SumEmitted(Nchannels) = HalfUp(Nchannels)

\* C13 amended: after a poll of all channels a channel in use at index i
\* sends exactly one status, on its block number floor(i/2) + 1 after the
\* poll reached it, unless it expires first; a channel not in use sends
\* none; so no more than two channels send on the same block and all have
\* sent within ceil(Nchannels / 2) blocks.
C13_OneStatusPerChannel ==
  /\ \A i \in Slots :
       /\ poll[i].emitted <= 1
       /\ poll[i].emitted = 1 => poll[i].tick = (i \div 2) + 1
       /\ (worker[i] /\ poll[i].blocks >= (i \div 2) + 1) => poll[i].emitted = 1
       /\ poll[i].tick <= HalfUp(Nchannels)
  /\ \A k \in 1 .. MaxBlocks :
       Cardinality({i \in Slots : poll[i].emitted = 1 /\ poll[i].tick = k}) <= 2

\* Every channel of a full table has sent its status, the last one on the
\* last of the ceil(Nchannels / 2) blocks.
C13_Witness ==
  /\ PollServed
  /\ \A i \in Slots : worker[i] /\ poll[i].emitted = 1
  /\ poll[Nchannels - 1].tick = HalfUp(Nchannels)
  /\ status_out[Nchannels - 1].from = "worker"

\* C14: after any sequence of SQUELCH_OPEN and SQUELCH_CLOSE commands the
\* channel's squelch_open is at least its squelch_close, unless both are 0.0.
C14_SquelchOrdered ==
  \/ Channel_list[0].squelch_open >= Channel_list[0].squelch_close
  \/ (Channel_list[0].squelch_open = 0 /\ Channel_list[0].squelch_close = 0)

\* The value of the last TLV of the given type in the last command: NAN
\* when the command has none.
RECURSIVE LastValue(_, _, _)
LastValue(pkt, type, k) ==
  IF k = 0 THEN NAN
  ELSE IF pkt[k][1] = type THEN pkt[k][2]
  ELSE LastValue(pkt, type, k - 1)

Sentinel(field, v) ==
  v # NAN => IF v <= 0 - 999 THEN field = 0
             ELSE (field = dB2power(v) /\ field > 0)

AlwaysOpen(chan) == chan.squelch_open = 0 /\ chan.squelch_close = 0

IsFM(chan) == chan.demod_type \in {FM_DEMOD, WFM_DEMOD}

\* C15: a SQUELCH_OPEN or SQUELCH_CLOSE value of -999 dB or less is stored
\* as the marker 0.0, any greater value as its power ratio; while both
\* thresholds hold the marker every block of the FM demodulator leaves the
\* squelch open whatever metric it measured, and the STATUS of the channel
\* still reports the metric (and thresholds of minus infinity dB).
C15_SquelchSentinel ==
  /\ [](dec.pc \in {"decoded", "done"} =>
          /\ Sentinel(Channel_list[0].squelch_open,
                      LastValue(dec.pkt, "SQUELCH_OPEN", Len(dec.pkt)))
          /\ Sentinel(Channel_list[0].squelch_close,
                      LastValue(dec.pkt, "SQUELCH_CLOSE", Len(dec.pkt))))
  /\ [][ /\ (DemodBlock /\ AlwaysOpen(Channel_list[0])) =>
              /\ Channel_list'[0].squelch_state = "OPEN"
              /\ AlwaysOpen(Channel_list'[0])
         /\ (DecodeStatus /\ IsFM(Channel_list[0])
             /\ AlwaysOpen(Channel_list[0])) =>
              /\ status_out'[0].pkt.fm_snr
                   = Present(power2dB(Channel_list[0].fm_snr))
              /\ status_out'[0].pkt.squelch_open = Present(MinusInf)
              /\ status_out'[0].pkt.squelch_close = Present(MinusInf) ]_vars

\* An FM channel was given both markers by two commands, its demodulator
\* then measured noise and left the squelch open, and the STATUS that
\* answers the next poll reports that metric.
C15_Witness ==
  /\ dec.pc = "done"
  /\ dec.pkt = <<>>
  /\ IsFM(Channel_list[0])
  /\ AlwaysOpen(Channel_list[0])
  /\ Channel_list[0].fm_snr = dB2power(0 - 20)
  /\ Channel_list[0].squelch_state = "OPEN"
  /\ status_out[0].pkt.fm_snr = Present(0 - 20)
  /\ status_out[0].pkt.squelch_open = Present(MinusInf)

\* C16: min_IF < max_IF for the channel after any sequence of commands.
C16_EdgesOrdered == Channel_list[0].min_IF < Channel_list[0].max_IF

\* C17: max_IF - min_IF <= output samprate for the channel after any
\* sequence of commands.
C17_PassbandFitsRate ==
  Channel_list[0].max_IF - Channel_list[0].min_IF <= Channel_list[0].samprate

\* C18 as stated: in every state a channel's worker exists exactly when the
\* channel is in use.
C18_WorkerIffInuse ==
  \A i \in Slots : worker[i] <=> Channel_list[i].inuse

\* C18 amended: a worker exists only for a channel in use, and a channel in
\* use has a worker except while the command thread is creating it, from
\* create_chan until start_demod.
C18_WorkerOnlyInuse ==
  \A i \in Slots :
    /\ worker[i] => Channel_list[i].inuse
    /\ (Channel_list[i].inuse /\ ~worker[i]) =>
         (ctl.pc \in {"decode", "start"} /\ ctl.chan = i)

\* A channel is being created (answered, not yet started) in the slot a torn
\* down channel left, next to a running channel.
C18_Witness ==
  /\ ctl.pc = "start"
  /\ Channel_list[ctl.chan].inuse
  /\ ~worker[ctl.chan]
  /\ status_out[ctl.chan].from = "ctl"
  /\ \E j \in Slots : j # ctl.chan /\ worker[j] /\ Channel_list[j].inuse
  /\ \E j \in Slots :
       j # ctl.chan /\ ~worker[j] /\ ~Channel_list[j].inuse
       /\ Channel_list[j].ssrc # 0

\* The command has retuned an idle channel to a frequency that is not zero.
Retunes ==
  /\ dec.pc # "cmd"
  /\ Pre.freq = 0
  /\ Pre.lifetime # 0
  /\ Post.freq # 0

\* C19 as stated: a command that retunes an idle channel to a nonzero
\* frequency refreshes its lifetime to the idle timeout; a command for an
\* idle channel that does not retune it leaves the lifetime alone.
C19_RetuneRefreshes ==
  (dec.pc # "cmd" /\ Pre.freq = 0 /\ Pre.lifetime # 0) =>
    IF Post.freq # 0 THEN Post.lifetime = Channel_idle_timeout
    ELSE Post.lifetime = Pre.lifetime

\* C19 amended: the lifetime rule looks at the frequency the channel had
\* before the command: no command for an idle channel changes its lifetime,
\* a retune to a nonzero frequency included, and every command for a tuned
\* channel refreshes it, a retune to zero included.
C19_LifetimeByOldFrequency ==
  (dec.pc # "cmd" /\ Pre.lifetime # 0) =>
    IF Pre.freq = 0 THEN Post.lifetime = Pre.lifetime
    ELSE Post.lifetime = Channel_idle_timeout

\* An idle channel with one block of life left was retuned and still has
\* one block of life.
C19_Witness ==
  /\ Retunes
  /\ dec.pc = "done"
  /\ Pre.lifetime = 1
  /\ Post.lifetime = 1
  /\ Post.freq = 7074000
  /\ status_out[0].pkt.freq = 7074000

\* The command ends with a PRESET that loads, followed by a tag for a field
\* that presets set.
PresetThenTag ==
  /\ dec.pc = "done"
  /\ Complete
  /\ Len(dec.pkt) >= 2
  /\ dec.pkt[Len(dec.pkt) - 1][1] = "PRESET"
  /\ dec.pkt[Len(dec.pkt) - 1][2] \in DOMAIN Preset_table
  /\ dec.pkt[Len(dec.pkt)][1] \in
       {"LOW_EDGE", "HIGH_EDGE", "KAISER_BETA", "OUTPUT_SAMPRATE", "DEMOD_TYPE"}

Applied(i) ==
  LET chan == Channel_list[i]
      aged == IF chan.freq = 0 /\ chan.lifetime > 0
                THEN [chan EXCEPT !.lifetime = @ - 1] ELSE chan
      res == decode_radio_commands(aged, chan.command[1], chan.length)
  IN /\ worker[i]
     /\ Channel_list'[i] = [res.chan EXCEPT !.global_timer = 0, !.command = NULL,
                                            !.length = 0]
     /\ status_out'[i] = [from |-> "worker",
                          pkt |-> send_radio_status_ex(res.chan, res.ret)]

\* The step is a block of the worker of slot i: a step of another thread
\* than the command thread that changes more of the channel than the
\* spectrum buffer.
BlockOf(i) ==
  /\ worker[i]
  /\ ctl' = ctl
  /\ Channel_list'[i] # [Channel_list[i] EXCEPT !.bin_data = Channel_list'[i].bin_data]

\* The idle channel of slot i runs out of lifetime at its next block.
Expiring(i) ==
  /\ Channel_list[i].inuse
  /\ Channel_list[i].freq = 0
  /\ Channel_list[i].lifetime = 1

\* C21 as stated: a command in a channel's pending slot leaves the slot only
\* by being applied by the channel's worker; it is never lost.
C21_NeverLost ==
  [][ \A i \in Slots :
        (Channel_list[i].command # NULL /\ Channel_list'[i].command = NULL)
          => Applied(i) ]_vars

\* C21 amended: a pending command is never replaced by another one; the
\* first block of the channel's worker applies it, exactly once, unless that
\* block is the one at which the idle channel expires; the command leaves
\* the slot unapplied only with its channel: when the channel expires at
\* that block, or when the command was queued on a channel torn down after
\* the lookup and the slot is handed to a new channel.
C21_AppliedAtNextBlock ==
  [][ \A i \in Slots :
        Channel_list[i].command # NULL =>
          /\ Channel_list'[i].command # NULL =>
                /\ Channel_list'[i].command = Channel_list[i].command
                /\ Channel_list'[i].length = Channel_list[i].length
          /\ (BlockOf(i) /\ ~Expiring(i)) => Applied(i)
          /\ Channel_list'[i].command = NULL =>
                \/ Applied(i)
                \/ (Expiring(i) /\ BlockOf(i) /\ ~Channel_list'[i].inuse)
                \/ (~Channel_list[i].inuse /\ ctl.pc = "create"
                    /\ ctl'.pc = "decode" /\ ctl'.chan = i) ]_vars

\* A spectrum channel's worker has applied a queued BIN_COUNT=256 and
\* answered it, and a later command for the channel is pending.
C21_Witness ==
  \E i \in Slots :
    /\ worker[i]
    /\ status_out[i].from = "worker"
    /\ status_out[i].pkt.bin_count = Present(256)
    /\ Channel_list[i].bin_count = 256
    /\ Channel_list[i].command # NULL

\* The locks the command thread holds.
HeldByCtl == {i \in Slots : mutex[i] = "ctl"}

\* C22: the command thread holds at most one channel lock, and only between
\* taking it and releasing it around the store into the slot or the setting
\* of the timer: none while it waits in recvfrom, calls malloc, free or
\* sendto, creates a channel, or waits for another channel's lock; no worker
\* holds its channel's lock while it waits for the master FFT; and whoever
\* waits for a lock waits for a holder whose next step, the release, is
\* enabled, so no set of threads waits in a circle.
C22_NoDeadlock ==
  /\ Cardinality(HeldByCtl) <= 1
  /\ \A i \in HeldByCtl :
       \/ ctl.pc = "locked" /\ ctl.chan = i
       \/ ctl.pc = "poll_locked" /\ ctl.i = i
  /\ \A i \in Slots :
       /\ mutex[i] = "worker" => (worker[i] /\ wpc[i] = "locked")
       /\ wpc[i] = "fft" => mutex[i] # "worker"
       /\ (worker[i] /\ wpc[i] \in {"lock", "close"} /\ mutex[i] # "free") =>
            (ENABLED lock_store \/ ENABLED lock_poll_unlock)
  /\ (ctl.pc = "lock" /\ mutex[ctl.chan] # "free") =>
       ENABLED worker_command(ctl.chan)
  /\ (ctl.pc = "poll" /\ ctl.i < Nchannels /\ mutex[ctl.i] # "free") =>
       ENABLED worker_command(ctl.i)

\* The command thread waits for the lock of a channel whose worker holds it
\* while the worker of another channel waits for the master FFT.
C22_Witness ==
  /\ ctl.pc = "lock"
  /\ mutex[ctl.chan] = "worker"
  /\ cmd # 0
  /\ heap[cmd].live
  /\ \E j \in Slots : j # ctl.chan /\ worker[j] /\ wpc[j] = "fft"

\* Has malloc returned buffer b?
Allocated(b) == heap[b].live \/ heap[b].frees > 0

\* Someone is going to free buffer b: the command thread still has it in
\* hand, or it is pending on a channel in use whose worker lives.
Owned(b) ==
  \/ cmd = b /\ ctl.pc \in {"lock", "locked"}
  \/ cmd = b /\ ctl.pc = "unlocked" /\ ctl.oops
  \/ \E i \in Slots : ptr[i] = b /\ Channel_list[i].inuse /\ worker[i]

\* C23: a command buffer is freed exactly once: never twice, never read
\* after it was freed, by the command thread only when the command was
\* refused, and as long as it is not freed someone is going to free it.
C23_FreedExactlyOnce ==
  \A b \in Buffers :
    Allocated(b) =>
      /\ heap[b].frees <= 1
      /\ ~heap[b].read_after_free
      /\ heap[b].live => Owned(b)

\* The configuration of a channel: every field but the idle countdown.
Configuration(chan) == [chan EXCEPT !.lifetime = 0]

\* C24: a command packet decoded twice in succession leaves the channel's
\* configuration as it was after the first decode.
C24_Idempotent ==
  dec.pc = "twice" => Configuration(Channel_list[0]) = Configuration(dec.once)

\* C25: cwsl_websdr_tune changes the frontend frequency only when the
\* frontend is not locked and the server answered the frequency command
\* with OK, and then to freq * (1 + calibrate); a locked frontend sends no
\* command; a command that fails or is refused leaves the frequency as it
\* was; the value returned is the frontend's frequency after the call.
C25_TuneOnlyWhenAcknowledged ==
  cw.tune.called =>
    /\ cw.tune.ret = frontend.frequency
    /\ cw.tune.locked => (~cw.tune.sent /\ frontend.frequency = cw.tune.before)
    /\ (~cw.tune.locked /\ cw.tune.response = "OK") =>
         frontend.frequency = Calibrated(cw.tune.freq, frontend.calibrate)
    /\ (~cw.tune.locked /\ cw.tune.response # "OK") =>
         frontend.frequency = cw.tune.before

\* A tune of an unlocked frontend with calibration 2 ppm was refused and
\* left the frequency that an earlier, acknowledged tune had set.
C25_Witness ==
  /\ cw.tune.called
  /\ ~cw.tune.locked
  /\ cw.tune.sent
  /\ cw.tune.response = "ERROR"
  /\ cw.tune.freq = 7000000
  /\ frontend.calibrate = 2
  /\ frontend.frequency = 14000028
  /\ cw.tune.ret = 14000028

\* C26: once Stop_transfers is set, the UDP receive thread leaves its loop
\* and runs the disconnect sequence, whatever the network delivers.
C26_StopEndsUdpThread ==
  (Stop_transfers /\ cw.udp \in {"test", "recv"}) ~> (cw.udp = "done")

\* C28: with neither receiver nor frequency in the section, and a server
\* that can be reached and accepts the attach to receiver 0, setup returns
\* success attached to receiver 0 with the frequency the server gave.
C28_SetupDefaults ==
  (/\ cw.pc # "setup"
   /\ config.receiver = Absent
   /\ config.frequency = Absent
   /\ server.reachable
   /\ 0 \in server.accepts)
  => /\ cw.setup_ret = 0
     /\ cwsl.receiver_id = 0
     /\ cwsl.l0_frequency = server.l0[0]

\* The command holds OUTPUT_SAMPRATE and OUTPUT_CHANNELS tags only and was
\* decoded on a spectrum channel.
OutputFormatToSpect ==
  /\ dec.pc = "decoded"
  /\ Complete
  /\ Pre.demod_type = SPECT_DEMOD
  /\ Len(dec.pkt) >= 1
  /\ \A k \in 1 .. Len(dec.pkt) :
       dec.pkt[k][1] \in {"OUTPUT_SAMPRATE", "OUTPUT_CHANNELS"}

\* C27: OUTPUT_SAMPRATE and OUTPUT_CHANNELS addressed to a channel whose
\* demod_type is SPECT change no channel state and request no restart.
C27_SpectIgnoresOutputFormat ==
  OutputFormatToSpect => (Post = Pre /\ ~dec.ret)

\* A loaded RX888 that is working: it opens, runs at SuperSpeed or better,
\* and interface 0 can be claimed.
Working(device) ==
  /\ device.product = LOADED_PRODUCT_ID
  /\ device.open
  /\ device.speed >= LIBUSB_SPEED_SUPER
  /\ device.claim

\* C29: a run of rx888_test that got as far as testing the devices exits 0
\* only when at least one loaded RX888 was found and is working, and exits
\* 1 when none is working.
C29_ExitZeroIffWorking ==
  (rx # RxOff /\ rx.pc = "exit" /\ rx.found # 0) =>
    (rx.status = 0 <=> \E k \in 1 .. Len(rx.devices) : Working(rx.devices[k]))

HasType(pkt, type) == \E k \in 1 .. Len(pkt) : pkt[k][1] = type

\* C30: BIN_COUNT and NONCOHERENT_BIN_BW are applied after every other tag
\* of the packet: when the channel is SPECT at the end of the packet its
\* bin_count and bin_bw are the packet's values, wherever PRESET and
\* DEMOD_TYPE stand in the packet; when it is not SPECT at the end, the
\* spectrum parameters are as they were.
C30_SpectrumOverridesLast ==
  (dec.pc = "decoded" /\ Complete) =>
    IF Post.demod_type = SPECT_DEMOD
      THEN /\ HasType(dec.pkt, "BIN_COUNT") =>
                Post.bin_count = LastValue(dec.pkt, "BIN_COUNT", Len(dec.pkt))
           /\ HasType(dec.pkt, "NONCOHERENT_BIN_BW") =>
                Post.bin_bw = LastValue(dec.pkt, "NONCOHERENT_BIN_BW", Len(dec.pkt))
      ELSE /\ Post.bin_count = Pre.bin_count
           /\ Post.bin_bw = Pre.bin_bw

\* BIN_COUNT=256 and NONCOHERENT_BIN_BW=100 came before the DEMOD_TYPE that
\* made the channel a spectrum channel, and are its parameters afterwards.
C30_Witness ==
  /\ dec.pc = "decoded"
  /\ Complete
  /\ dec.pkt = << <<"BIN_COUNT", 256>>, <<"NONCOHERENT_BIN_BW", 100>>,
                  <<"DEMOD_TYPE", SPECT_DEMOD>> >>
  /\ Pre.demod_type # SPECT_DEMOD
  /\ Pre.bin_count = 64
  /\ Post.demod_type = SPECT_DEMOD
  /\ Post.bin_count = 256
  /\ Post.bin_bw = 100

\* The channel as the last decode found it.
Before == IF dec.pc = "twice" THEN dec.once ELSE dec.pre

\* A filter parameter of the channel differs after the command.
FilterChanged ==
  \/ Post.min_IF # Before.min_IF
  \/ Post.max_IF # Before.max_IF
  \/ Post.kaiser_beta # Before.kaiser_beta

\* The filter was rebuilt once, with the oscillator forced to start over.
RebuiltOnce == dec.filter_sets = 1 /\ Post.remainder = NAN

NotRebuilt == dec.filter_sets = 0 /\ Post.remainder = Before.remainder

C32_NoPollBeforeRealloc ==
  \A i \in Slots :
    status_out[i].pkt.polled =>
      /\ status_out[i].pkt.vector_buf # Absent
      /\ status_out[i].pkt.vector_buf # Present(0)
      /\ status_out[i].pkt.vector_buf = status_out[i].pkt.bin_count

\* The command without its TLVs of a type the decoder has no case for
\* (DESCRIPTION is one).
IsKnown(tlv) == tlv[1] # "DESCRIPTION"

Known(pkt) == SelectSeq(pkt, IsKnown)

\* C33: a TLV whose tag is not recognised changes no channel state and does
\* not stop the scan: the channel and the return value are those the
\* command without the unknown TLVs gives.
C33_UnknownTagSkipped ==
  (dec.pc = "decoded" /\ Complete /\ HasType(dec.pkt, "DESCRIPTION")) =>
    LET res == decode_radio_commands(Pre, Known(dec.pkt) \o <<EOL>>,
                                     Size(Known(dec.pkt)) + 1)
    IN /\ Post = res.chan
       /\ dec.ret = res.ret
       /\ dec.scanned = Len(dec.pkt)

\* An unknown TLV stood between two tags that both took effect.
C33_Witness ==
  /\ dec.pc = "decoded"
  /\ Complete
  /\ dec.pkt = << <<"COMMAND_TAG", 7>>, <<"DESCRIPTION", 0>>,
                  <<"RADIO_FREQUENCY", 7074000>> >>
  /\ Pre.tag # 7
  /\ Pre.freq # 7074000
  /\ Post.tag = 7
  /\ Post.freq = 7074000

\* Setup has returned success.
SetupDone == cw # <<>> /\ cw.pc \in {"startup", "running"} /\ ~cw.tune.called

\* C34: after a successful cwsl_websdr_setup the frontend's frequency is
\* the attached receiver's L0 times (1 + calibrate), with calibrate the
\* value configured for the section.
C34_FrequencyCalibrated ==
  SetupDone =>
    /\ frontend.calibrate = config.calibrate
    /\ frontend.frequency = Calibrated(cwsl.l0_frequency, config.calibrate)

\* C35: while decoding a command of length bytes the decoder reads no byte
\* at or beyond buffer + length.
C35_NoReadPastLength ==
  dec.pc = "decoded" => dec.read_end <= dec.length

\* C38: every well-formed TLV that lies entirely inside the datagram is
\* applied, the one whose value ends at the datagram's last byte included.
C38_LastTLVApplied ==
  (dec.pc = "decoded" /\ dec.length >= Size(dec.pkt)) =>
    dec.scanned = Len(dec.pkt)

\* C36: the encoded STATUS never exceeds the packet buffer of PKTSIZE
\* bytes, whatever BIN_COUNT a command has set on a spectrum channel.
C36_StatusFitsBuffer ==
  \A i \in Slots :
    status_out[i].pkt.type = "STATUS" => EncodedSize(status_out[i].pkt) <= PKTSIZE

\* C37: a command is stored in a channel's pending slot only while the
\* channel is in use and has a live worker: never in a channel torn down
\* between the lookup and the store.
C37_StoreOnlyInLiveChannel ==
  [][\A i \in Slots :
       (ptr'[i] # ptr[i] /\ ptr'[i] # 0) =>
         (Channel_list[i].inuse /\ worker[i])]_vars

PtOf(chan) == pt_from_info(chan.samprate, chan.channels, chan.encoding)

\* C39: after every decoded command output.rtp.type is pt_from_info of the
\* channel's current sample rate, channel count and encoding (it was so
\* before the command), whichever tag changed them.
C39_PayloadTypeCurrent ==
  (dec.pc = "decoded" /\ Pre.rtp_type = PtOf(Pre)) => Post.rtp_type = PtOf(Post)

\* C40: command/response exchanges on the TCP control connection are
\* mutually exclusive: at most one thread is inside cwsl_send_command, and
\* no thread is inside an exchange once disconnect has closed the socket.
C40_ExchangesExclusive ==
  /\ Cardinality(cw.inside) <= 1
  /\ cw.inside # {} => cwsl.tcp_fd >= 0

====
